---- MODULE Spec2Model ----
(***************************************************************************)
(* ChronoTune (chronotune.py): year resolution (EnhancedMusicIdentifier)   *)
(* and collision-safe placement (UltraMusicFilter).                        *)
(*                                                                         *)
(* A Python str is a sequence of one-character strings.  A float that the  *)
(* code computes from token counts is an exact rational [n, d] (d > 0);    *)
(* the fixed confidences are percentages (0.95 -> 95).                     *)
(***************************************************************************)
EXTENDS Integers, Sequences, FiniteSets, TLC

\* None, for an Optional[str] (no str of the model has a 4-character element)
\* and for an Optional[int] (no year of the model is negative)
NoneStr == <<"None">>

NoneInt == -1

(* ----------------------------------------------------------------------- *)
(* Bounds of the model                                                     *)
(* ----------------------------------------------------------------------- *)
\* longest argument of _similarity
MaxSimLen == 3
\* longest file stem of the file-name year step
MaxStemLen == 6
\* most music files under root at the first start
MaxFiles == 2
\* most tracks in one response of the search capability
MaxTracks == 2
\* how many times the program is started
MaxRuns == 2

\* the number of files of a long run
MaxFlushFiles == 51

(* ----------------------------------------------------------------------- *)
(* Python str operations                                                   *)
(* ----------------------------------------------------------------------- *)
Space == " "

\* str.isspace for one character
IsSpace(c) == c = Space

\* the characters \d matches
Digits == {"0", "1", "2", "3", "4", "5", "6", "7", "8", "9"}

IsDigit(c) == c \in Digits

\* the characters \w matches: letters, digits and the underscore
IsWord(c) == c \notin {Space, "-", "|", "/", "&", ",", "(", ")", "[", "]", "@", "."}

\* str.lower, one character
LowerChar(c) ==
    CASE c = "A" -> "a"
      [] c = "B" -> "b"
      [] c = "X" -> "x"
      [] OTHER -> c

Lower(s) == [i \in 1..Len(s) |-> LowerChar(s[i])]

Min(a, b) == IF a < b THEN a ELSE b

\* s[:n]
Take(s, n) == SubSeq(s, 1, Min(n, Len(s)))

\* s[n:] with n counted from 0
Drop(s, n) == SubSeq(s, n + 1, Len(s))

RECURSIVE LStrip(_)
LStrip(s) == IF s # <<>> /\ IsSpace(Head(s)) THEN LStrip(Tail(s)) ELSE s

RECURSIVE RStrip(_)
RStrip(s) ==
    IF s # <<>> /\ IsSpace(s[Len(s)]) THEN RStrip(SubSeq(s, 1, Len(s) - 1)) ELSE s

\* str.strip()
Strip(s) == RStrip(LStrip(s))

\* str.split(): the maximal runs of non-whitespace characters, in order
RECURSIVE SplitAcc(_, _, _)
SplitAcc(s, cur, acc) ==
    IF s = <<>>
    THEN IF cur = <<>> THEN acc ELSE Append(acc, cur)
    ELSE IF IsSpace(Head(s))
         THEN SplitAcc(Tail(s), <<>>, IF cur = <<>> THEN acc ELSE Append(acc, cur))
         ELSE SplitAcc(Tail(s), Append(cur, Head(s)), acc)

Split(s) == SplitAcc(s, <<>>, <<>>)

\* ' '.join(ws)
RECURSIVE Join(_)
Join(ws) ==
    IF ws = <<>> THEN <<>>
    ELSE IF Len(ws) = 1 THEN ws[1]
    ELSE ws[1] \o <<Space>> \o Join(Tail(ws))

\* re.sub(r'\s+', ' ', s).strip()
CollapseWS(s) == Join(Split(s))

\* set(ws)
ToSet(ws) == {ws[i] : i \in 1..Len(ws)}

\* every str of length 0..n over the characters cs
StrsUpTo(cs, n) == UNION {[1..k -> cs] : k \in 0..n}

(* ----------------------------------------------------------------------- *)
(* Exact rationals standing for the floats of the scoring code             *)
(* ----------------------------------------------------------------------- *)
Rat(n, d) == [n |-> n, d |-> d]

RatGT(x, y) == x.n * y.d > y.n * x.d

RatEQ(x, y) == x.n * y.d = y.n * x.d

RatLE(x, y) == x.n * y.d <= y.n * x.d

(* ----------------------------------------------------------------------- *)
(* EnhancedMusicIdentifier._similarity                                     *)
(* ----------------------------------------------------------------------- *)
\* len(intersection) / len(union) if union else 0.0
word_ratio(intersection, union) ==
    IF union # {} THEN Rat(Cardinality(intersection), Cardinality(union)) ELSE Rat(0, 1)

\* the ratio taken over the words of the first string in place of the union
word_similarity_asym(s1_words, s2_words) ==
    IF s1_words = {} \/ s2_words = {} THEN Rat(0, 1)
    ELSE word_ratio(s1_words \cap s2_words, s1_words)

\* the value for the two sets of words
word_similarity(s1_words, s2_words) ==
    IF s1_words = {} \/ s2_words = {} THEN Rat(0, 1)
    ELSE word_ratio(s1_words \cap s2_words, s1_words \cup s2_words)

similarity(s1, s2) ==
    IF s1 = <<>> \/ s2 = <<>> THEN Rat(0, 1)
    ELSE word_similarity(ToSet(Split(s1)), ToSet(Split(s2)))

(* ----------------------------------------------------------------------- *)
(* Regular-expression helpers (re.search / re.sub on one str)              *)
(* ----------------------------------------------------------------------- *)
\* does the literal lit (already lower case) occur in s at index i, ignoring case
OccursAt(s, lit, i) ==
    /\ i >= 1
    /\ i + Len(lit) - 1 <= Len(s)
    /\ \A j \in 1..Len(lit) : LowerChar(s[i + j - 1]) = lit[j]

\* the smallest member of a set of indices, 0 for the empty set
MinOrZero(hits) == IF hits = {} THEN 0 ELSE CHOOSE i \in hits : \A j \in hits : i <= j

\* index of the leftmost occurrence of lit in s at or after index from, 0 if none
FindFrom(s, lit, from) == MinOrZero({i \in from..Len(s) : OccursAt(s, lit, i)})

\* re.sub(lit, '', s, flags=re.I) for a literal pattern
RECURSIVE SubLiteral(_, _)
\* s without the occurrence of lit at index i and without the later ones
SubLiteralAt(s, lit, i) ==
    IF i = 0 THEN s
    ELSE SubSeq(s, 1, i - 1) \o SubLiteral(Drop(s, i + Len(lit) - 1), lit)

SubLiteral(s, lit) == SubLiteralAt(s, lit, FindFrom(s, lit, 1))

\* s[:i-1] for a match at index i, s when there is none (i = 0)
TruncateAt(s, i) == IF i = 0 THEN s ELSE SubSeq(s, 1, i - 1)

\* re.sub(lit + '.*', '', s, flags=re.I): everything from the first occurrence on
SubFrom(s, lit) == TruncateAt(s, FindFrom(s, lit, 1))

\* number of leading characters of s that \w matches
RECURSIVE WordRun(_)
WordRun(s) == IF s # <<>> /\ IsWord(Head(s)) THEN 1 + WordRun(Tail(s)) ELSE 0

\* re.sub(r'@\w+', '', s)
RECURSIVE SubHandle(_)
\* s, which starts with "@", without the handle when n word characters follow
SubHandleRun(s, n) ==
    IF n > 0 THEN SubHandle(Drop(Tail(s), n)) ELSE <<Head(s)>> \o SubHandle(Tail(s))

SubHandle(s) ==
    IF s = <<>> THEN <<>>
    ELSE IF Head(s) = "@" THEN SubHandleRun(s, WordRun(Tail(s)))
    ELSE <<Head(s)>> \o SubHandle(Tail(s))

\* re.sub(r'\[.*?\]', '', s)
RECURSIVE SubBracketed(_)
\* s without s[i..j] and without the later bracketed parts; s when i or j is 0
SubSpan(s, i, j) ==
    IF i = 0 \/ j = 0 THEN s ELSE SubSeq(s, 1, i - 1) \o SubBracketed(Drop(s, j))

SubBracketedAt(s, i) ==
    SubSpan(s, i, IF i = 0 THEN 0 ELSE FindFrom(s, <<"]">>, i + 1))

SubBracketed(s) == SubBracketedAt(s, FindFrom(s, <<"[">>, 1))

\* the words of (official|video|audio|lyrics|hd|hq|4k|remix|edit)
NoiseWords ==
    { <<"o","f","f","i","c","i","a","l">>, <<"v","i","d","e","o">>,
      <<"a","u","d","i","o">>, <<"l","y","r","i","c","s">>, <<"h","d">>,
      <<"h","q">>, <<"4","k">>, <<"r","e","m","i","x">>, <<"e","d","i","t">> }

\* the end index of the noise word of s that starts at index i
NoiseEndAt(s, i) ==
    IF i = 0 THEN 0
    ELSE i + Len(CHOOSE w \in NoiseWords : OccursAt(s, w, i)) - 1

\* end index of the leftmost noise word of s that starts at or after from, 0 if none
NoiseEndFrom(s, from) ==
    NoiseEndAt(s, MinOrZero({i \in from..Len(s) : \E w \in NoiseWords : OccursAt(s, w, i)}))

\* re.sub(r'\(.*?(official|...|edit).*?\)', '', s, flags=re.I)
RECURSIVE SubNoiseParen(_)
\* s without s[i..j] and without the later noise parentheses; s when i or j is 0
SubNoiseSpan(s, i, j) ==
    IF i = 0 \/ j = 0 THEN s ELSE SubSeq(s, 1, i - 1) \o SubNoiseParen(Drop(s, j))

\* i: index of "(", e: end of the noise word after it
SubNoiseClose(s, i, e) ==
    SubNoiseSpan(s, i, IF e = 0 THEN 0 ELSE FindFrom(s, <<")">>, e + 1))

SubNoiseParenAt(s, i) ==
    SubNoiseClose(s, i, IF i = 0 THEN 0 ELSE NoiseEndFrom(s, i + 1))

SubNoiseParen(s) == SubNoiseParenAt(s, FindFrom(s, <<"(">>, 1))

\* s.split(sep)[0]
BeforeFirst(s, sep) == TruncateAt(s, FindFrom(s, <<sep>>, 1))

\* int(s) for a str of decimal digits; NoneInt stands for the ValueError
DigitVal(c) ==
    CASE c = "0" -> 0 [] c = "1" -> 1 [] c = "2" -> 2 [] c = "3" -> 3
      [] c = "4" -> 4 [] c = "5" -> 5 [] c = "6" -> 6 [] c = "7" -> 7
      [] c = "8" -> 8 [] c = "9" -> 9 [] OTHER -> 0

RECURSIVE DigitsVal(_)
DigitsVal(s) ==
    IF s = <<>> THEN 0 ELSE 10 * DigitsVal(SubSeq(s, 1, Len(s) - 1)) + DigitVal(s[Len(s)])

ParseInt(s) ==
    IF s # <<>> /\ \A i \in 1..Len(s) : IsDigit(s[i]) THEN DigitsVal(s) ELSE NoneInt

\* Python truthiness of an Optional[str] and of an Optional[int]
Truthy(v) == v # NoneStr /\ v # <<>>

TruthyInt(v) == v # NoneInt /\ v # 0

(* ----------------------------------------------------------------------- *)
(* Program constants                                                       *)
(* ----------------------------------------------------------------------- *)
\* query[:100]
QueryMaxLen == 100
\* len(query) < 3
QueryMinLen == 3
\* limit=15
SearchLimit == 15
\* if self.stats['processed'] % 50 == 0
FlushEvery == 50
\* 2000 <= year <= 2030
YearLo == 2000
YearHi == 2030
\* the confidences, in percent
ConfMetadata == 95
ConfSpotifyArtist == 85
ConfSpotifyTitle == 70
ConfFilename == 60
ConfUnknown == 0
\* cached.get('confidence', 0.5) and confidence >= 0.5
ConfDefault == 50
ConfOther == 50
\* best_score > 0.35, as the rational 35/100
AcceptNum == 35
AcceptDen == 100
\* (title_score * 0.7) + (artist_score * 0.3), in tenths
TitleWeight == 7
ArtistWeight == 3

(* ----------------------------------------------------------------------- *)
(* identify_year, "Prioridade 3": the year in the file name                *)
(* ----------------------------------------------------------------------- *)
\* 20[0-2][0-9] at s[i..i+3]
YearTokenAt(s, i) ==
    /\ i >= 1
    /\ i + 3 <= Len(s)
    /\ s[i] = "2"
    /\ s[i + 1] = "0"
    /\ s[i + 2] \in {"0", "1", "2"}
    /\ IsDigit(s[i + 3])

NonDigitAt(s, i) == i >= 1 /\ i <= Len(s) /\ ~IsDigit(s[i])

\* re.search(pattern, stem) for the three year_patterns: the index of group(1)
\* of the leftmost match, 0 when the pattern does not match
\*   1: [^\d](20[0-2][0-9])[^\d]   2: ^(20[0-2][0-9])[^\d]   3: [^\d](20[0-2][0-9])$
YearPatternMatch(p, s) ==
    MinOrZero({i \in 1..Len(s) :
                 /\ YearTokenAt(s, i)
                 /\ (p = 1 => NonDigitAt(s, i - 1) /\ NonDigitAt(s, i + 4))
                 /\ (p = 2 => i = 1 /\ NonDigitAt(s, i + 4))
                 /\ (p = 3 => NonDigitAt(s, i - 1) /\ i + 3 = Len(s))})

RECURSIVE FilenameYearFrom(_, _)
\* the body of the loop for pattern p, year being int(match.group(1)) or NoneInt
\* when the pattern did not match
FilenameYearOr(p, s, year) ==
    IF year # NoneInt /\ YearLo <= year /\ year <= YearHi
    THEN year
    ELSE FilenameYearFrom(p + 1, s)

\* int(match.group(1)) for a match whose group(1) starts at index i
YearAt(s, i) == IF i = 0 THEN NoneInt ELSE ParseInt(SubSeq(s, i, i + 3))

\* the for loop over year_patterns from pattern p on: the year of the first
\* pattern that matches with 2000 <= year <= 2030, NoneInt when none does
FilenameYearFrom(p, s) ==
    IF p > 3 THEN NoneInt
    ELSE FilenameYearOr(p, s, YearAt(s, YearPatternMatch(p, s)))

filename_year(stem) == FilenameYearFrom(1, stem)

(* ----------------------------------------------------------------------- *)
(* EnhancedMusicIdentifier.extract_metadata                                *)
(* ----------------------------------------------------------------------- *)
\* [-–—], [|] and [/] of the three patterns; the model's alphabet has the
\* ASCII hyphen only
SeparatorSets == << {"-"}, {"|"}, {"/"} >>

\* the two groups for a separator at index d0, <<>> when there is none (d0 = 0)
SeparatorGroups(f, d0) ==
    IF d0 = 0 THEN <<>>
    ELSE << RStrip(SubSeq(f, 1, d0 - 1)), LStrip(Drop(f, d0)) >>

\* re.match(r'^(.+?)\s*[seps]\s*(.+?)$', f) for a stripped f: <<group(1), group(2)>>
\* or <<>>.  The separator is the leftmost one that has a character on each
\* side; group(1) stops before the spaces in front of it, group(2) starts after
\* the spaces behind it.
SeparatorMatch(f, seps) ==
    SeparatorGroups(f, MinOrZero({d \in 2..(Len(f) - 1) : f[d] \in seps}))

RECURSIVE FirstSeparatorMatch(_, _)
\* "if match: ... break", else the next pattern
MatchOrNext(match, f, k) ==
    IF match # <<>> THEN match ELSE FirstSeparatorMatch(f, k + 1)

FirstSeparatorMatch(f, k) ==
    IF k > Len(SeparatorSets) THEN <<>>
    ELSE MatchOrNext(SeparatorMatch(f, SeparatorSets[k]), f, k)

\* year of a tag date: int(str(date)[:4]) when the date has 4 characters or
\* more; a ValueError is swallowed by the bare except and leaves the year unset
TagYear(date) ==
    IF Truthy(date) /\ Len(date) >= 4 THEN ParseInt(Take(date, 4)) ELSE NoneInt

CleanValue(v) == IF Truthy(v) THEN CollapseWS(v) ELSE v

\* "if not metadata['title'] or not metadata['artist']"
NeedsFallback(tags) == ~Truthy(tags.title) \/ ~Truthy(tags.artist)

\* metadata['artist'] after the fallback; match is <<group(1), group(2)>> or <<>>
FallbackArtist(tags, match) ==
    IF NeedsFallback(tags) /\ match # <<>> /\ ~Truthy(tags.artist)
    THEN Strip(match[1]) ELSE tags.artist

\* metadata['title'] after the loop over the patterns
MatchedTitle(tags, match) ==
    IF NeedsFallback(tags) /\ match # <<>> /\ ~Truthy(tags.title)
    THEN Strip(match[2]) ELSE tags.title

\* "if not metadata['title']: metadata['title'] = filename.strip()"
FallbackTitle(tags, filename, title) ==
    IF NeedsFallback(tags) /\ ~Truthy(title) THEN Strip(filename) ELSE title

\* the metadata for the tags, the filename without its bracketed parts, and
\* the match of the first pattern that matches it
FilledMetadata(tags, filename, match) ==
    [title |-> CleanValue(FallbackTitle(tags, filename, MatchedTitle(tags, match))),
     artist |-> CleanValue(FallbackArtist(tags, match)),
     year |-> TagYear(tags.date)]

MetadataFor(tags, filename) ==
    FilledMetadata(tags, filename, FirstSeparatorMatch(Strip(filename), 1))

\* tags: the embedded tags [title, artist, date] (NoneStr when absent); stem: the
\* file name without its suffix
extract_metadata(tags, stem) == MetadataFor(tags, SubNoiseParen(SubBracketed(stem)))

(* ----------------------------------------------------------------------- *)
(* EnhancedMusicIdentifier.search_spotify: cleaning of title and artist    *)
(* ----------------------------------------------------------------------- *)
\* remove_patterns, in order, matched with re.I: "lit" removes every occurrence
\* of a literal, "from" removes from the first occurrence to the end
\* (DVD.*, feat\.?.*, ft\.?.*, Transcende.*, Ao Vivo.*), "handle" is @\w+,
\* "bracket" is \[.*?\]
remove_patterns ==
    << [kind |-> "lit",  lit |-> <<"(","a","o"," ","v","i","v","o",")">>],
       [kind |-> "lit",  lit |-> <<"(","a","o"," ","v","i","v","o",")">>],
       [kind |-> "lit",  lit |-> <<"(","l","i","v","e",")">>],
       [kind |-> "lit",  lit |-> <<"(","l","i","v","e",")">>],
       [kind |-> "from", lit |-> <<"d","v","d">>],
       [kind |-> "from", lit |-> <<"f","e","a","t">>],
       [kind |-> "from", lit |-> <<"f","t">>],
       [kind |-> "handle", lit |-> <<"@">>],
       [kind |-> "bracket", lit |-> <<"[">>],
       [kind |-> "lit",  lit |-> <<"d","e","l","u","x","e">>],
       [kind |-> "from", lit |-> <<"t","r","a","n","s","c","e","n","d","e">>],
       [kind |-> "from", lit |-> <<"a","o"," ","v","i","v","o">>] >>

ApplyPattern(pat, s) ==
    CASE pat.kind = "lit" -> SubLiteral(s, pat.lit)
      [] pat.kind = "from" -> SubFrom(s, pat.lit)
      [] pat.kind = "handle" -> SubHandle(s)
      [] pat.kind = "bracket" -> SubBracketed(s)

RECURSIVE ApplyPatternsFrom(_, _)
ApplyPatternsFrom(k, s) ==
    IF k > Len(remove_patterns) THEN s
    ELSE ApplyPatternsFrom(k + 1, ApplyPattern(remove_patterns[k], s))

\* clean_title of search_spotify
clean_title_of(title) ==
    CollapseWS(Strip(BeforeFirst(BeforeFirst(ApplyPatternsFrom(1, title), "|"), "/")))

\* clean_artist of search_spotify (artist if artist else "")
clean_artist_of(artist) ==
    CollapseWS(ApplyPatternsFrom(1, IF Truthy(artist) THEN artist ELSE <<>>))

\* clean_artist.split('&')[0].split(',')[0].strip()
first_artist_of(clean_artist) ==
    Strip(BeforeFirst(BeforeFirst(clean_artist, "&"), ","))

\* ' '.join(clean_title.split()[:n])
first_words(clean_title, n) == Join(Take(Split(clean_title), n))

(* ----------------------------------------------------------------------- *)
(* EnhancedMusicIdentifier._try_search                                     *)
(* ----------------------------------------------------------------------- *)
\* re.sub(r'[^\w\s]', ' ', query)
SubNonWord(q) ==
    [i \in 1..Len(q) |-> IF IsWord(q[i]) \/ IsSpace(q[i]) THEN q[i] ELSE Space]

\* the query string of one attempt
query_of(artist, title) ==
    Take(CollapseWS(SubNonWord(IF Truthy(artist) THEN artist \o <<Space>> \o title
                               ELSE title)),
         QueryMaxLen)

\* (title_score * 0.7) + (artist_score * 0.3)
weighted_score(title_score, artist_score) ==
    Rat(TitleWeight * title_score.n * artist_score.d
          + ArtistWeight * artist_score.n * title_score.d,
        (TitleWeight + ArtistWeight) * title_score.d * artist_score.d)

\* track['artists'][0]['name'].lower() if track['artists'] else ''
track_artist_of(track) == IF track.artist # NoneStr THEN Lower(track.artist) ELSE <<>>

\* total_score of one track: a track is [name, artist, date], artist = NoneStr
\* for an empty track['artists'], date = NoneStr for a missing release_date
total_score(artist, title, track) ==
    IF Truthy(artist)
    THEN weighted_score(similarity(Lower(title), Lower(track.name)),
                        similarity(Lower(artist), track_artist_of(track)))
    ELSE similarity(Lower(title), Lower(track.name))

\* "if total_score > best_score": the best match after item k scored total
better_match(best, k, total) ==
    IF RatGT(total, best.score) THEN [match |-> k, score |-> total] ELSE best

\* the for loop over results['tracks']['items'] from item k on:
\* [match: index of best_match (0 for None), score: best_score]
RECURSIVE BestMatchFrom(_, _, _, _, _)
BestMatchFrom(artist, title, items, k, best) ==
    IF k > Len(items) THEN best
    ELSE BestMatchFrom(artist, title, items, k + 1,
                       better_match(best, k, total_score(artist, title, items[k])))

best_match_of(artist, title, items) ==
    BestMatchFrom(artist, title, items, 1, [match |-> 0, score |-> Rat(0, 1)])

\* acceptance at the threshold itself: best_score >= 0.35
accept_ge(score) == ~RatGT(Rat(AcceptNum, AcceptDen), score)

\* best_score > 0.35
accept(score) == RatGT(score, Rat(AcceptNum, AcceptDen))

\* the return value of an attempt that called the capability with query
attempt(query, year) ==
    [called |-> TRUE, query |-> query, year |-> year, hit |-> year # NoneInt,
     raised |-> FALSE]

\* the return value of an attempt whose call raised: "except Exception", then
\* "return None"
failed_attempt(query) ==
    [called |-> TRUE, query |-> query, year |-> NoneInt, hit |-> FALSE, raised |-> TRUE]

\* best_match['album'].get('release_date', '')
release_date_of(track) == IF track.date = NoneStr THEN <<>> ELSE track.date

\* "if release_date and len(release_date) >= 4: year = int(release_date[:4])";
\* the ValueError of int is caught by the except of _try_search
release_year(release_date) ==
    IF release_date # <<>> /\ Len(release_date) >= 4
    THEN ParseInt(Take(release_date, 4))
    ELSE NoneInt

\* "if best_match and best_score > 0.35"
accepted_year(items, best) ==
    IF best.match # 0 /\ accept(best.score)
    THEN release_year(release_date_of(items[best.match]))
    ELSE NoneInt

\* the attempt from the query on
search_query(query, artist, title, resp) ==
    IF query = <<>> \/ Len(query) < QueryMinLen
    THEN [called |-> FALSE, query |-> query, year |-> NoneInt, hit |-> FALSE,
          raised |-> FALSE]
    ELSE IF resp.kind = "raise" THEN failed_attempt(query)
    ELSE IF resp.items = <<>> THEN attempt(query, NoneInt)
    ELSE attempt(query, accepted_year(resp.items, best_match_of(artist, title, resp.items)))

\* One attempt.  resp is what self.spotify.search does when it is called:
\* [kind |-> "raise"] or [kind |-> "ok", items |-> <<track, ...>>].
\* Result: called (was the capability called), query, year (NoneInt for None),
\* hit (was spotify_hits incremented)
try_search(artist, title, resp) == search_query(query_of(artist, title), artist, title, resp)

(* ----------------------------------------------------------------------- *)
(* State                                                                   *)
(* ----------------------------------------------------------------------- *)
VARIABLES
    sim_s1, sim_s2, sim_out,    \* one call of _similarity: arguments and value
    try_in, try_out,    \* one call of _try_search: [artist, title, resp] and result
    pc,                 \* position of the run: "scan", "next", "id_meta", ...
    run_no,             \* how many times the program was started
    disk,               \* the files under root: [dir, stem, data, size, mtime, tags]
    target_years,       \* UltraMusicFilter.target_years
    backup_enabled,     \* UltraMusicFilter.backup_enabled
    spotify_enabled,    \* EnhancedMusicIdentifier.spotify_enabled (and spotify set)
    cache,              \* EnhancedMusicIdentifier.cache: fingerprint -> entry
    store,              \* the content of CACHE_FILE
    stats,              \* UltraMusicFilter.stats
    id_stats,           \* EnhancedMusicIdentifier.stats
    files,              \* run: the list scan_files returned, as <<dir, stem>> paths
    idx,                \* run: index in files of the file of this iteration
    file_hash,          \* identify_year: file_hash
    metadata,           \* identify_year: metadata
    result,             \* what identify_year returned: [year, source, confidence]
    pf,                 \* what process_file returned: [year, confidence, success]
    s_args,             \* search_spotify: the arguments [title, artist]
    clean,              \* search_spotify: [title |-> clean_title, artist |-> clean_artist]
    calls,              \* the calls of self.spotify.search made for this file:
                        \* [strategy, query, year the attempt returned, raised]
    search_out,         \* what search_spotify returned
    io_failed,          \* did a filesystem operation of this run fail (one may)
    interrupt_at        \* the index of the file that was in progress when a
                        \* KeyboardInterrupt arrived in this run, 0 for none

simVars == <<sim_s1, sim_s2, sim_out, try_in, try_out>>

searchVars == <<s_args, clean, calls, search_out>>

idVars == <<file_hash, metadata, result>>

cfgVars == <<target_years, backup_enabled>>

vars == <<sim_s1, sim_s2, sim_out, try_in, try_out, pc, run_no, disk, target_years, backup_enabled,
          spotify_enabled, cache, store, stats, id_stats, files, idx, file_hash,
          metadata, result, pf, s_args, clean, calls, search_out, io_failed,
          interrupt_at>>

(* ----------------------------------------------------------------------- *)
(* Files, directories, fingerprints                                        *)
(* ----------------------------------------------------------------------- *)
\* A directory is the sequence of the parts of its path relative to the root,
\* a file's dir is the directory it is in.
BACKUP_DIR == "backup_musicas"

\* self.backup_dir = self.root / BACKUP_DIR
backup_dir == <<BACKUP_DIR>>

\* self.root / "outros_anos"
OtherDir == <<"outros_anos">>

\* self.root / "nao_identificadas"
UnknownDir == <<"nao_identificadas">>

\* self.root / str(year), the directory of a target year
YearDir(year) == <<ToString(year)>>

\* the suffix of every file of the model
Suffix == <<".", "m", "p", "3">>

\* str(n) for a natural number
RECURSIVE IntStr(_)
IntStr(n) ==
    LET d == <<"0", "1", "2", "3", "4", "5", "6", "7", "8", "9">>[(n % 10) + 1]
    IN  IF n < 10 THEN <<d>> ELSE IntStr(n \div 10) \o <<d>>

PathOf(f) == <<f.dir, f.stem>>

Exists(d, dir, stem) == \E f \in d : f.dir = dir /\ f.stem = stem

FileAt(d, path) == CHOOSE f \in d : PathOf(f) = path

\* the file of the current iteration
CurPath == files[idx]

CurFile == FileAt(disk, CurPath)

\* get_file_hash: md5 over str(st_size), name and str(st_mtime), fed in that
\* order; the digest is taken to be injective on the concatenation
get_file_hash(f) == IntStr(f.size) \o f.stem \o Suffix \o IntStr(f.mtime)

\* the excluded names without those of the target years
exclude_dirs_fixed ==
    {"outros_anos", "nao_identificadas", BACKUP_DIR, "antigas", "fora_2025"}

\* exclude_dirs of scan_files
exclude_dirs ==
    {ToString(year) : year \in target_years}
        \cup {"outros_anos", "nao_identificadas", BACKUP_DIR, "antigas", "fora_2025"}

\* "any(part in exclude_dirs for part in relative_parts)" for a file in dir.
\* The last part, the file's name, ends with a supported extension and is
\* never one of exclude_dirs.
excluded(dir) == \E i \in 1..Len(dir) : dir[i] \in exclude_dirs

\* the three category directories of this configuration
CategoryDirs == {YearDir(y) : y \in target_years} \cup {OtherDir, UnknownDir}

\* the orders in which rglob may yield the paths of a set
Orders(S) ==
    {q \in [1..Cardinality(S) -> S] : \A i, j \in 1..Cardinality(S) : i # j => q[i] # q[j]}

\* an unknown result that carries the default confidence of a cache hit
NoResult_default == [year |-> NoneInt, source |-> "unknown", confidence |-> ConfDefault]

\* return (None, 'unknown', 0.0)
NoResult == [year |-> NoneInt, source |-> "unknown", confidence |-> ConfUnknown]

ZeroStats ==
    [total |-> 0, processed |-> 0, by_year |-> [y \in target_years |-> 0],
     other_years |-> 0, unknown |-> 0, errors |-> 0, moved |-> 0, backed_up |-> 0]

ZeroIdStats == [spotify_hits |-> 0, metadata_hits |-> 0, filename_hits |-> 0, cache_hits |-> 0]

NoTry == [called |-> FALSE, query |-> <<>>, year |-> NoneInt, hit |-> FALSE, raised |-> FALSE]

\* the tags of a file without embedded tags
NoTags == [title |-> NoneStr, artist |-> NoneStr, date |-> NoneStr]

NoMeta == [title |-> NoneStr, artist |-> NoneStr, year |-> NoneInt]

NoPf == [year |-> NoneInt, confidence |-> ConfUnknown, success |-> FALSE]

NoArgs == [title |-> <<>>, artist |-> NoneStr]

NoClean == [title |-> <<>>, artist |-> <<>>]

(* ----------------------------------------------------------------------- *)
(* EnhancedMusicIdentifier._cache_result, save_cache, load_cache           *)
(* ----------------------------------------------------------------------- *)
\* _cache_result writing a cache that holds the new entry alone
cache_result_fresh(c, h, res) ==
    IF res.year # NoneInt
    THEN [k \in {h} |->
            [year |-> res.year, source |-> res.source,
             confidence |-> res.confidence, timestamp |-> run_no]]
    ELSE c

\* _cache_result storing a fixed confidence in place of the result's
cache_result_noconf(c, h, res) ==
    IF res.year # NoneInt
    THEN [k \in DOMAIN c \cup {h} |->
            IF k = h
            THEN [year |-> res.year, source |-> res.source,
                  confidence |-> ConfDefault, timestamp |-> run_no]
            ELSE c[k]]
    ELSE c

\* the cache after _cache_result(h, res); datetime.now() is the number of the run
cache_result(c, h, res) ==
    IF res.year # NoneInt
    THEN [k \in DOMAIN c \cup {h} |->
            IF k = h
            THEN [year |-> res.year, source |-> res.source,
                  confidence |-> res.confidence, timestamp |-> run_no]
            ELSE c[k]]
    ELSE c

EmptyCache == [k \in {} |-> 0]

\* save_cache: CACHE_FILE is rewritten with the cache; when open fails the
\* error is swallowed and the file keeps its content
save_cache_outcomes == IF io_failed THEN {cache} ELSE {cache, store}

(* ----------------------------------------------------------------------- *)
(* UltraMusicFilter.run and scan_files                                     *)
(* ----------------------------------------------------------------------- *)
\* run up to the loop: files = self.scan_files(), stats['total'], and the
\* early return when nothing was found
scan_files ==
    /\ pc = "scan"
    /\ \E q \in Orders({PathOf(f) : f \in {g \in disk : ~excluded(g.dir)}}) :
          /\ files' = q
          /\ stats' = [stats EXCEPT !.total = Len(q)]
          /\ pc' = IF q = <<>> THEN "returned" ELSE "next"
    /\ idx' = 1
    /\ UNCHANGED <<interrupt_at, simVars, searchVars, idVars, cfgVars, run_no, disk, spotify_enabled,
                   cache, store, id_stats, pf, io_failed>>

(* ----------------------------------------------------------------------- *)
(* EnhancedMusicIdentifier.identify_year                                   *)
(* ----------------------------------------------------------------------- *)
\* a cache hit that reports the source 'cache' in place of the stored one
cached_result_tagged(cached) ==
    [year |-> cached.year, source |-> "cache", confidence |-> cached.confidence]

\* return cached.get('year'), cached.get('source', 'cache'),
\* cached.get('confidence', 0.5); every entry of the model has the three keys
cached_result(cached) ==
    [year |-> cached.year, source |-> cached.source, confidence |-> cached.confidence]

\* result = (metadata['year'], 'metadata', 0.95)
metadata_result(year) ==
    [year |-> year, source |-> "metadata", confidence |-> ConfMetadata]

\* "if file_hash in self.cache" for the fingerprint h of the file
lookup(h) ==
    /\ file_hash' = h
    /\ IF h \in DOMAIN cache
       THEN /\ result' = cached_result(cache[h])
            /\ id_stats' = [id_stats EXCEPT !.cache_hits = @ + 1]
            /\ pc' = "pf"
       ELSE /\ result' = NoResult
            /\ id_stats' = id_stats
            /\ pc' = "id_meta"

\* process_file calls identify_year: the fingerprint and the cache lookup
identify_cache ==
    /\ pc = "next"
    /\ idx <= Len(files)
    /\ lookup(get_file_hash(CurFile))
    /\ metadata' = NoMeta
    /\ pf' = NoPf
    /\ s_args' = NoArgs
    /\ clean' = NoClean
    /\ calls' = <<>>
    /\ search_out' = NoneInt
    /\ UNCHANGED <<interrupt_at, simVars, cfgVars, run_no, disk, spotify_enabled, cache, store, stats,
                   files, idx, io_failed>>

\* "Prioridade 1" and the decision to search, for the metadata m of the file
from_metadata(m) ==
    /\ metadata' = m
    /\ IF TruthyInt(m.year)
       THEN /\ result' = metadata_result(m.year)
            /\ id_stats' = [id_stats EXCEPT !.metadata_hits = @ + 1]
            /\ cache' = cache_result(cache, file_hash, result')
            /\ pc' = "pf"
            /\ s_args' = s_args
       ELSE /\ UNCHANGED <<result, id_stats, cache>>
            /\ IF spotify_enabled /\ Truthy(m.title)
               THEN /\ s_args' = [title |-> m.title, artist |-> m.artist]
                    /\ pc' = "search"
               ELSE /\ s_args' = s_args
                    /\ pc' = "id_filename"

\* extract_metadata, "Prioridade 1" and the decision to search
identify_metadata ==
    /\ pc = "id_meta"
    /\ from_metadata(extract_metadata(CurFile.tags, CurFile.stem))
    /\ UNCHANGED <<interrupt_at, simVars, cfgVars, run_no, disk, spotify_enabled, store, stats, files,
                   idx, file_hash, pf, clean, calls, search_out, io_failed>>

\* a search result with the confidence of a known artist in every case
spotify_result_flat(spotify_year, artist) ==
    [year |-> spotify_year, source |-> "spotify", confidence |-> ConfSpotifyArtist]

\* confidence = 0.85 if metadata['artist'] else 0.70;
\* result = (spotify_year, 'spotify', confidence)
spotify_result(spotify_year, artist) ==
    [year |-> spotify_year, source |-> "spotify",
     confidence |-> IF Truthy(artist) THEN ConfSpotifyArtist ELSE ConfSpotifyTitle]

\* "Prioridade 2": what identify_year does with the year search_spotify returned
identify_spotify ==
    /\ pc = "search_ret"
    /\ IF TruthyInt(search_out)
       THEN /\ result' = spotify_result(search_out, metadata.artist)
            /\ cache' = cache_result(cache, file_hash, result')
            /\ pc' = "pf"
       ELSE /\ UNCHANGED <<result, cache>>
            /\ pc' = "id_filename"
    /\ UNCHANGED <<interrupt_at, simVars, searchVars, cfgVars, run_no, disk, spotify_enabled, store,
                   stats, id_stats, files, idx, file_hash, metadata, pf, io_failed>>

\* the result for the year the file name gives (NoneInt when it gives none)
from_filename(year) ==
    IF year # NoneInt
    THEN /\ result' = [year |-> year, source |-> "filename", confidence |-> ConfFilename]
         /\ id_stats' = [id_stats EXCEPT !.filename_hits = @ + 1]
         /\ cache' = cache_result(cache, file_hash, result')
    ELSE /\ result' = NoResult
         /\ UNCHANGED <<id_stats, cache>>

\* "Prioridade 3" and the final return (None, 'unknown', 0.0)
identify_filename ==
    /\ pc = "id_filename"
    /\ from_filename(filename_year(CurFile.stem))
    /\ pc' = "pf"
    /\ UNCHANGED <<interrupt_at, simVars, searchVars, cfgVars, run_no, disk, spotify_enabled, store,
                   stats, files, idx, file_hash, metadata, pf, io_failed>>

(* ----------------------------------------------------------------------- *)
(* EnhancedMusicIdentifier.search_spotify                                  *)
(* ----------------------------------------------------------------------- *)
\* the guard on spotify_enabled and the cleaning of title and artist
search_spotify ==
    /\ pc = "search"
    /\ IF ~spotify_enabled
       THEN /\ search_out' = NoneInt
            /\ pc' = "search_ret"
            /\ clean' = clean
       ELSE /\ clean' = [title |-> clean_title_of(s_args.title),
                         artist |-> clean_artist_of(s_args.artist)]
            /\ search_out' = search_out
            /\ pc' = "s1"
    /\ UNCHANGED <<interrupt_at, simVars, idVars, cfgVars, run_no, disk, spotify_enabled, cache, store,
                   stats, id_stats, files, idx, pf, s_args, calls, io_failed>>

\* a search that gives up at the first attempt whose call raised
attempted_abort(k, out, next) ==
    /\ calls' = IF out.called
                THEN Append(calls, [strategy |-> k, query |-> out.query, year |-> out.year,
                             raised |-> out.raised])
                ELSE calls
    /\ id_stats' = IF out.hit THEN [id_stats EXCEPT !.spotify_hits = @ + 1] ELSE id_stats
    /\ IF TruthyInt(out.year)
       THEN /\ search_out' = out.year
            /\ pc' = "search_ret"
       ELSE /\ search_out' = NoneInt
            /\ pc' = IF out.raised THEN "search_ret" ELSE next

\* what search_spotify does with the value out of the _try_search of strategy
\* k: "if year: return year", otherwise control falls to the next block
attempted(k, out, next) ==
    /\ calls' = IF out.called
                THEN Append(calls, [strategy |-> k, query |-> out.query, year |-> out.year,
                             raised |-> out.raised])
                ELSE calls
    /\ id_stats' = IF out.hit THEN [id_stats EXCEPT !.spotify_hits = @ + 1] ELSE id_stats
    /\ IF TruthyInt(out.year)
       THEN /\ search_out' = out.year
            /\ pc' = "search_ret"
       ELSE /\ search_out' = NoneInt
            /\ pc' = next

\* One "ESTRATEGIA" block: when its condition holds, one _try_search with the
\* given artist and title, answered by some response of Responses; a truthy
\* year is returned, otherwise control falls to the next block
Strategy(k, here, cond, artist, title, Responses, next) ==
    /\ pc = here
    /\ IF cond
       THEN \E resp \in Responses : attempted(k, try_search(artist, title, resp), next)
       ELSE /\ UNCHANGED <<calls, id_stats>>
            /\ search_out' = NoneInt
            /\ pc' = next
    /\ UNCHANGED <<interrupt_at, simVars, idVars, cfgVars, run_no, disk, spotify_enabled, cache, store,
                   stats, files, idx, pf, s_args, clean, io_failed>>

\* ESTRATEGIA 1: full artist + full title
Strategy1(Responses) ==
    Strategy(1, "s1", clean.artist # <<>> /\ clean.title # <<>>,
             clean.artist, clean.title, Responses, "s2")

\* ESTRATEGIA 2: title alone
Strategy2(Responses) ==
    Strategy(2, "s2", clean.title # <<>>, NoneStr, clean.title, Responses, "s3")

\* ESTRATEGIA 3: first artist + full title
Strategy3(Responses) ==
    Strategy(3, "s3", clean.artist # <<>> /\ Space \in ToSet(clean.artist),
             first_artist_of(clean.artist), clean.title, Responses, "s4")

\* ESTRATEGIA 4: full artist + first 3 words of the title
Strategy4(Responses) ==
    Strategy(4, "s4", clean.artist # <<>> /\ Len(Split(clean.title)) > 3,
             clean.artist, first_words(clean.title, 3), Responses, "s5")

\* ESTRATEGIA 5: first 2 words of the title, with the artist when there is one
Strategy5(Responses) ==
    Strategy(5, "s5", Len(Split(clean.title)) >= 2,
             IF clean.artist # <<>> THEN clean.artist ELSE NoneStr,
             first_words(clean.title, 2), Responses, "search_ret")

(* ----------------------------------------------------------------------- *)
(* UltraMusicFilter.process_file, after identify_year returned             *)
(* ----------------------------------------------------------------------- *)
\* the counters after "processed += 1" and the if / elif / else on the year
counted(year) ==
    [stats EXCEPT
       !.processed = @ + 1,
       !.by_year = IF year \in target_years THEN [@ EXCEPT ![year] = @ + 1] ELSE @,
       !.other_years = IF year \notin target_years /\ TruthyInt(year) THEN @ + 1 ELSE @,
       !.unknown = IF year \notin target_years /\ ~TruthyInt(year) THEN @ + 1 ELSE @]

\* the returned dict for the metadata m of the second extract_metadata
processed(m) ==
    IF m.artist = NoneStr \/ m.title = NoneStr
    THEN /\ stats' = [counted(result.year) EXCEPT !.errors = @ + 1]
         /\ pf' = NoPf
         /\ pc' = "loop_end"
    ELSE /\ stats' = counted(result.year)
         /\ pf' = [year |-> result.year, confidence |-> result.confidence,
                   success |-> TRUE]
         /\ pc' = "backup"

\* the second extract_metadata, the counters and the returned dict;
\* metadata.get('artist', 'Unknown')[:25] raises TypeError for an artist that
\* is None, which the except turns into errors += 1 and success = False
process_file ==
    /\ pc = "pf"
    /\ processed(extract_metadata(CurFile.tags, CurFile.stem))
    /\ metadata' = NoMeta
    /\ s_args' = NoArgs
    /\ clean' = NoClean
    /\ calls' = <<>>
    /\ search_out' = NoneInt
    /\ UNCHANGED <<interrupt_at, simVars, cfgVars, run_no, disk, spotify_enabled, cache, store, id_stats,
                   files, idx, file_hash, result, io_failed>>

(* ----------------------------------------------------------------------- *)
(* UltraMusicFilter.create_backup and move_file                            *)
(* ----------------------------------------------------------------------- *)
\* f"{stem}_{counter}"
Suffixed(stem, counter) == stem \o <<"_">> \o IntStr(counter)

\* counter = 1; while path.exists(): path = dir / f"{stem}_{counter}{suffix}":
\* the stem of the path the loop ends with, entered with the path dir / name
RECURSIVE FreeFrom(_, _, _, _)
FreeFrom(d, dir, stem, counter) ==
    IF Exists(d, dir, Suffixed(stem, counter))
    THEN FreeFrom(d, dir, stem, counter + 1)
    ELSE Suffixed(stem, counter)

\* the destination name taken as it is, whatever is there
free_stem_overwrite(d, dir, stem) == stem

\* the stem move_file and create_backup end with for the name stem in dir
free_stem(d, dir, stem) == IF Exists(d, dir, stem) THEN FreeFrom(d, dir, stem, 1) ELSE stem

\* the files after g was written to its path: shutil.copy2 and shutil.move
\* replace a file that is already there
Put(d, g) == {h \in d : PathOf(h) # PathOf(g)} \cup {g}

\* create_backup(f) when backups are enabled
backup_of(f) ==
    IF \E b \in disk : b.dir = backup_dir /\ b.stem = f.stem /\ b.size = f.size
    THEN UNCHANGED <<disk, stats, io_failed>>
    ELSE \/ /\ disk' = Put(disk, [f EXCEPT !.dir = backup_dir,
                                           !.stem = free_stem(disk, backup_dir, f.stem)])
            /\ stats' = [stats EXCEPT !.backed_up = @ + 1]
            /\ io_failed' = io_failed
         \/ /\ ~io_failed
            /\ io_failed' = TRUE
            /\ UNCHANGED <<disk, stats>>

\* a move_file that gives up when the backup of the file failed
create_backup_blocking ==
    /\ pc = "backup"
    /\ IF ~backup_enabled
       THEN UNCHANGED <<disk, stats, io_failed>>
       ELSE backup_of(CurFile)
    /\ pc' = IF io_failed' # io_failed THEN "loop_end" ELSE "move"
    /\ UNCHANGED <<interrupt_at, simVars, searchVars, idVars, cfgVars, run_no, spotify_enabled, cache,
                   store, id_stats, files, idx, pf>>

\* the "if self.backup_enabled: self.create_backup(file_path)" of move_file
create_backup ==
    /\ pc = "backup"
    /\ IF ~backup_enabled
       THEN UNCHANGED <<disk, stats, io_failed>>
       ELSE backup_of(CurFile)
    /\ pc' = "move"
    /\ UNCHANGED <<interrupt_at, simVars, searchVars, idVars, cfgVars, run_no, spotify_enabled, cache,
                   store, id_stats, files, idx, pf>>

\* the destination chosen from the year alone, whatever the confidence
dest_dir_noconf(year, confidence) ==
    IF year \in target_years THEN YearDir(year)
    ELSE IF TruthyInt(year) THEN OtherDir
    ELSE UnknownDir

\* the destination directory of move_file
dest_dir(year, confidence) ==
    IF year \in target_years THEN YearDir(year)
    ELSE IF TruthyInt(year) /\ confidence >= ConfOther THEN OtherDir
    ELSE UnknownDir

\* shutil.move of f to the free name in dir, or the exception it raises
moved_to(f, dir) ==
    \/ /\ disk' = Put(disk \ {f},
                      [f EXCEPT !.dir = dir, !.stem = free_stem(disk, dir, f.stem)])
       /\ stats' = [stats EXCEPT !.moved = @ + 1]
       /\ io_failed' = io_failed
    \/ /\ ~io_failed
       /\ io_failed' = TRUE
       /\ UNCHANGED <<disk, stats>>

\* the rest of move_file: destination, free name, shutil.move
move_file ==
    /\ pc = "move"
    /\ moved_to(CurFile, dest_dir(pf.year, pf.confidence))
    /\ pc' = "loop_end"
    /\ UNCHANGED <<interrupt_at, simVars, searchVars, idVars, cfgVars, run_no, spotify_enabled, cache,
                   store, id_stats, files, idx, pf>>

(* ----------------------------------------------------------------------- *)
(* UltraMusicFilter.run: the end of an iteration and of the run            *)
(* ----------------------------------------------------------------------- *)
\* the end of an iteration without the periodic save_cache
loop_end_noflush ==
    /\ pc = "loop_end"
    /\ UNCHANGED <<store, io_failed>>
    /\ idx' = idx + 1
    /\ pc' = "next"
    /\ UNCHANGED <<interrupt_at, simVars, searchVars, idVars, cfgVars, run_no, disk, spotify_enabled,
                   cache, stats, id_stats, files, pf>>

\* if self.stats['processed'] % 50 == 0: save_cache(); then the next file
loop_end ==
    /\ pc = "loop_end"
    /\ IF stats.processed % FlushEvery = 0
       THEN \E written \in save_cache_outcomes :
               /\ store' = written
               /\ io_failed' = (io_failed \/ written # cache)
       ELSE UNCHANGED <<store, io_failed>>
    /\ idx' = idx + 1
    /\ pc' = "next"
    /\ UNCHANGED <<interrupt_at, simVars, searchVars, idVars, cfgVars, run_no, disk, spotify_enabled,
                   cache, stats, id_stats, files, pf>>

\* after the loop, left at its end or by the break of "except
\* KeyboardInterrupt": self.identifier.save_cache()
run_end ==
    /\ \/ pc = "next" /\ idx > Len(files)
       \/ pc = "break"
    /\ \E written \in save_cache_outcomes :
          /\ store' = written
          /\ io_failed' = (io_failed \/ written # cache)
    /\ pc' = "returned"
    /\ UNCHANGED <<interrupt_at, simVars, searchVars, idVars, cfgVars, run_no, disk, spotify_enabled,
                   cache, stats, id_stats, files, idx, pf>>

\* a later start of the program on the same root: __init__ of both classes
\* (load_cache, fresh counters); the search may be enabled or not this time
new_run ==
    /\ pc = "returned"
    /\ run_no < MaxRuns
    /\ run_no' = run_no + 1
    /\ cache' = store
    /\ stats' = ZeroStats
    /\ id_stats' = ZeroIdStats
    /\ spotify_enabled' \in BOOLEAN
    /\ files' = <<>>
    /\ idx' = 1
    /\ file_hash' = <<>>
    /\ metadata' = NoMeta
    /\ result' = NoResult
    /\ pf' = NoPf
    /\ s_args' = NoArgs
    /\ clean' = NoClean
    /\ calls' = <<>>
    /\ search_out' = NoneInt
    /\ io_failed' = FALSE
    /\ interrupt_at' = 0
    /\ pc' = "scan"
    /\ UNCHANGED <<simVars, cfgVars, disk, store>>

(* ----------------------------------------------------------------------- *)
(* KeyboardInterrupt during run.  It is no Exception: "except Exception"    *)
(* lets it pass, a bare "except:" catches it.                              *)
(* ----------------------------------------------------------------------- *)
\* the positions between the "try:" of the loop of run and its handlers at
\* which nothing but "except KeyboardInterrupt" of run catches the interrupt
BreakingAt == {"id_meta", "search", "s1", "s2", "s3", "s4", "s5", "search_ret",
               "id_filename", "pf", "backup", "move", "loop_end"}

\* the interrupt reaches "except KeyboardInterrupt: ... break" of run
interrupt_break ==
    /\ pc \in BreakingAt
    /\ interrupt_at = 0
    /\ interrupt_at' = idx
    /\ pc' = "break"
    /\ UNCHANGED <<simVars, searchVars, idVars, cfgVars, run_no, disk, spotify_enabled,
                   cache, store, stats, id_stats, files, idx, pf, io_failed>>

\* str(file_path), which get_file_hash returns from its bare except
path_key(f) ==
    [i \in 1..(2 * Len(f.dir)) |-> IF i % 2 = 1 THEN f.dir[(i + 1) \div 2] ELSE "/"]
        \o f.stem \o Suffix

\* the interrupt arrives in get_file_hash, whose bare except catches it:
\* identify_year goes on with the path as the fingerprint
interrupt_hash ==
    /\ pc = "next"
    /\ idx <= Len(files)
    /\ interrupt_at = 0
    /\ interrupt_at' = idx
    /\ lookup(path_key(CurFile))
    /\ metadata' = NoMeta
    /\ pf' = NoPf
    /\ s_args' = NoArgs
    /\ clean' = NoClean
    /\ calls' = <<>>
    /\ search_out' = NoneInt
    /\ UNCHANGED <<simVars, cfgVars, run_no, disk, spotify_enabled, cache, store, stats,
                   files, idx, io_failed>>

\* the tags that were read when the interrupt arrives in the "try: tags =
\* EasyID3(file_path) ... except: pass" of extract_metadata: none, the title,
\* or the title and the artist
PartialTags(tags) ==
    { NoTags,
      [tags EXCEPT !.artist = NoneStr, !.date = NoneStr],
      [tags EXCEPT !.date = NoneStr] }

\* the interrupt arrives while identify_year reads the tags: the bare except
\* of extract_metadata catches it and the resolution goes on
interrupt_tags ==
    /\ pc = "id_meta"
    /\ interrupt_at = 0
    /\ interrupt_at' = idx
    /\ \E tags \in PartialTags(CurFile.tags) :
          from_metadata(extract_metadata(tags, CurFile.stem))
    /\ UNCHANGED <<simVars, cfgVars, run_no, disk, spotify_enabled, store, stats, files,
                   idx, file_hash, pf, clean, calls, search_out, io_failed>>

\* the interrupt arrives while save_cache writes CACHE_FILE after the loop:
\* the bare except of save_cache catches it, the file is left truncated (it
\* loads as an empty cache) or complete, and run returns
interrupt_save ==
    /\ pc = "next"
    /\ idx > Len(files)
    /\ interrupt_at = 0
    /\ interrupt_at' = idx
    /\ store' \in {EmptyCache, cache}
    /\ pc' = "returned"
    /\ UNCHANGED <<simVars, searchVars, idVars, cfgVars, run_no, disk, spotify_enabled,
                   cache, stats, id_stats, files, idx, pf, io_failed>>

\* the interrupt arrives in pbar.update(1), after the handlers of the loop:
\* it leaves run, which does not reach its save_cache
interrupt_update ==
    /\ pc = "loop_end"
    /\ interrupt_at = 0
    /\ interrupt_at' = idx
    /\ pc' = "returned"
    /\ UNCHANGED <<simVars, searchVars, idVars, cfgVars, run_no, disk, spotify_enabled,
                   cache, store, stats, id_stats, files, idx, pf, io_failed>>

(* ----------------------------------------------------------------------- *)
(* The inputs of the model                                                 *)
(* ----------------------------------------------------------------------- *)
s_ab == <<"a", "b">>
s_abc == <<"a", "b", "c">>
s_abcd == <<"a", "b", "c", "d">>
s_long == <<"a", " ", "&", " ", "b", "-", "a", "b", "c", " ", "d", "e", " ", "f", "g",
            " ", "2", "0", "2", "4">>
d_2024 == <<"2", "0", "2", "4">>
d_2019 == <<"2", "0", "1", "9", "-", "0", "5">>
d_0000 == <<"0", "0", "0", "0">>
d_bad == <<"2", "0", "x", "x">>

\* the music files a root may hold at the first start: same names in different
\* folders, tags with and without title, artist and date, a date "0000"
FilePool ==
    { [dir |-> <<"in1">>, stem |-> s_abc, data |-> 1, size |-> 1, mtime |-> 1,
       tags |-> [title |-> NoneStr, artist |-> s_ab, date |-> d_0000]],
      [dir |-> <<"in2">>, stem |-> s_abc, data |-> 2, size |-> 1, mtime |-> 1,
       tags |-> [title |-> s_abc, artist |-> s_ab, date |-> d_2024]],
      [dir |-> <<"in1">>, stem |-> s_long, data |-> 3, size |-> 1, mtime |-> 1,
       tags |-> NoTags],
      [dir |-> <<"in2">>, stem |-> s_abcd, data |-> 4, size |-> 2, mtime |-> 2,
       tags |-> NoTags] }

\* files a target directory may hold from an earlier use of the root
Placed1 == [dir |-> YearDir(2024), stem |-> s_abc, data |-> 7, size |-> 1, mtime |-> 1,
            tags |-> NoTags]

Placed2 == [dir |-> YearDir(2024), stem |-> Suffixed(s_abc, 1), data |-> 8, size |-> 1,
            mtime |-> 1, tags |-> NoTags]

PlacedSets == { {}, {Placed1, Placed2} }

TargetYearSets == { {2024}, {2019, 2024} }

\* CACHE_FILE at the first start: absent, or holding an entry that was not
\* written by this version (a confidence below every confidence of identify_year)
ForeignEntry == [year |-> 2019, source |-> "filename", confidence |-> 30, timestamp |-> 0]

InitialStores ==
    { EmptyCache,
      [h \in {IntStr(1) \o s_abc \o Suffix \o IntStr(1)} |-> ForeignEntry] }

\* tracks and responses of the search capability in a run
Track(name, artist, date) == [name |-> name, artist |-> artist, date |-> date]

RunResponses ==
    { [kind |-> "raise"],
      [kind |-> "ok", items |-> <<>>],
      [kind |-> "ok", items |-> << Track(<<"A", "b", "c">>, s_ab, d_2024) >>],
      [kind |-> "ok", items |-> << Track(s_abc, s_ab, d_2019) >>],
      [kind |-> "ok", items |-> << Track(s_abc, s_ab, d_0000) >>],
      [kind |-> "ok", items |-> << Track(s_abcd, s_ab, d_2024) >>],
      [kind |-> "ok", items |-> << Track(s_abc, s_ab, d_bad) >>] }

(* ----------------------------------------------------------------------- *)
(* The run                                                                 *)
(* ----------------------------------------------------------------------- *)
IdleSim ==
    /\ sim_s1 = <<>>
    /\ sim_s2 = <<>>
    /\ sim_out = Rat(0, 1)

IdleTry ==
    /\ try_in = [artist |-> NoneStr, title |-> <<>>, resp |-> [kind |-> "raise"]]
    /\ try_out = NoTry

IdleLocals ==
    /\ file_hash = <<>>
    /\ metadata = NoMeta
    /\ result = NoResult
    /\ pf = NoPf
    /\ s_args = NoArgs
    /\ clean = NoClean
    /\ calls = <<>>
    /\ search_out = NoneInt

\* the state after UltraMusicFilter.__init__ at the first start
Init ==
    /\ interrupt_at = 0
    /\ IdleSim
    /\ IdleTry
    /\ IdleLocals
    /\ pc = "scan"
    /\ run_no = 1
    /\ target_years \in TargetYearSets
    /\ backup_enabled \in BOOLEAN
    /\ spotify_enabled \in BOOLEAN
    /\ \E S \in SUBSET FilePool, P \in PlacedSets :
          /\ Cardinality(S) <= MaxFiles
          /\ disk = S \cup P
    /\ store \in InitialStores
    /\ cache = store
    /\ stats = ZeroStats
    /\ id_stats = ZeroIdStats
    /\ files = <<>>
    /\ idx = 1
    /\ io_failed = FALSE

Next ==
    \/ scan_files
    \/ identify_cache
    \/ identify_metadata
    \/ search_spotify
    \/ Strategy1(RunResponses)
    \/ Strategy2(RunResponses)
    \/ Strategy3(RunResponses)
    \/ Strategy4(RunResponses)
    \/ Strategy5(RunResponses)
    \/ identify_spotify
    \/ identify_filename
    \/ process_file
    \/ create_backup
    \/ move_file
    \/ loop_end
    \/ run_end
    \/ new_run

Spec == Init /\ [][Next]_vars

(* ----------------------------------------------------------------------- *)
(* _similarity on its own: every pair of short strings                     *)
(* ----------------------------------------------------------------------- *)
SimChars == {"a", "b", Space}

IdleRun ==
    /\ run_no = 1
    /\ target_years = {2024}
    /\ backup_enabled = FALSE
    /\ store = EmptyCache
    /\ cache = EmptyCache
    /\ stats = ZeroStats
    /\ id_stats = ZeroIdStats
    /\ io_failed = FALSE

InitSim ==
    /\ interrupt_at = 0
    /\ sim_s1 \in StrsUpTo(SimChars, MaxSimLen)
    /\ sim_s2 \in StrsUpTo(SimChars, MaxSimLen)
    /\ sim_out = Rat(0, 1)
    /\ IdleTry
    /\ pc = "sim"
    /\ IdleRun
    /\ IdleLocals
    /\ spotify_enabled = FALSE
    /\ disk = {}
    /\ files = <<>>
    /\ idx = 1

similarity_call ==
    /\ pc = "sim"
    /\ sim_out' = similarity(sim_s1, sim_s2)
    /\ pc' = "sim_done"
    /\ UNCHANGED <<interrupt_at, sim_s1, sim_s2, try_in, try_out, searchVars, idVars, cfgVars, run_no, disk,
                   spotify_enabled, cache, store, stats, id_stats, files, idx, pf,
                   io_failed>>

SpecSim == InitSim /\ [][similarity_call]_vars

(* ----------------------------------------------------------------------- *)
(* The file-name year step on its own: every short stem                    *)
(* ----------------------------------------------------------------------- *)
StemChars == {"2", "0", "x"}

\* identify_year at "Prioridade 3" for a file without tags, the search disabled
InitYear ==
    /\ interrupt_at = 0
    /\ IdleSim
    /\ IdleTry
    /\ IdleRun
    /\ spotify_enabled = FALSE
    /\ \E stem \in StrsUpTo(StemChars, MaxStemLen) \ {<<>>} :
          LET f == [dir |-> <<"in1">>, stem |-> stem, data |-> 1, size |-> 1, mtime |-> 1,
                    tags |-> NoTags]
          IN  /\ disk = {f}
              /\ files = <<PathOf(f)>>
              /\ file_hash = get_file_hash(f)
              /\ metadata = extract_metadata(f.tags, f.stem)
    /\ idx = 1
    /\ result = NoResult
    /\ pf = NoPf
    /\ s_args = NoArgs
    /\ clean = NoClean
    /\ calls = <<>>
    /\ search_out = NoneInt
    /\ pc = "id_filename"

SpecYear == InitYear /\ [][identify_filename]_vars

(* ----------------------------------------------------------------------- *)
(* _try_search on its own: artists, titles and responses                   *)
(* ----------------------------------------------------------------------- *)
SearchTitles ==
    { <<"a">>,
      <<"a", "b">>,
      <<"a", "b", " ", "c", "d">>,
      <<"a", "b", " ", "c", "d", " ", "e", "f">>,
      <<"a", "b", " ", "c", "d", " ", "e", "f", " ", "g", "h">>,
      <<"a", "b", " ", "f", "t", ".", " ", "c", "d">>,
      <<"f", "t", " ", "a", "b">> }

SearchArtists == { NoneStr, <<"c", "d">>, <<"c", "d", " ", "&", " ", "e", "f">> }

TrackPool ==
    { Track(n, a, d) : n \in { <<"a", "b", " ", "c", "d">>, <<"A", "b">> },
                       a \in { <<"c", "d">>, NoneStr },
                       d \in { d_2019, d_2024 } }
      \cup { Track(<<"a", "b", " ", "c", "d">>, <<"c", "d">>, d) :
                       d \in { d_0000, NoneStr, <<"2", "0">>, <<"2", "0", "x", "x">> } }

TryResponses ==
    { [kind |-> "raise"] }
      \cup { [kind |-> "ok", items |-> q] :
                q \in UNION { [1..n -> TrackPool] : n \in 0..MaxTracks } }

InitTry ==
    /\ interrupt_at = 0
    /\ IdleSim
    /\ try_in \in [artist : SearchArtists \cup {<<>>}, title : SearchTitles,
                   resp : TryResponses]
    /\ try_out = NoTry
    /\ pc = "try"
    /\ IdleRun
    /\ IdleLocals
    /\ spotify_enabled = TRUE
    /\ disk = {}
    /\ files = <<>>
    /\ idx = 1

try_search_call ==
    /\ pc = "try"
    /\ try_out' = try_search(try_in.artist, try_in.title, try_in.resp)
    /\ pc' = "try_done"
    /\ UNCHANGED <<interrupt_at, sim_s1, sim_s2, sim_out, try_in, searchVars, idVars, cfgVars, run_no,
                   disk, spotify_enabled, cache, store, stats, id_stats, files, idx, pf,
                   io_failed>>

SpecTry == InitTry /\ [][try_search_call]_vars

(* ----------------------------------------------------------------------- *)
(* search_spotify on its own: titles, artists and responses                *)
(* ----------------------------------------------------------------------- *)
SearchResponses ==
    { [kind |-> "raise"],
      [kind |-> "ok", items |-> <<>>],
      [kind |-> "ok", items |-> << Track(<<"a", "b", " ", "c", "d">>, <<"c", "d">>, d_2019) >>],
      [kind |-> "ok", items |-> << Track(<<"A", "b">>, NoneStr, d_2024) >>],
      [kind |-> "ok", items |-> << Track(<<"a", "b", " ", "c", "d">>, <<"c", "d">>, d_0000) >>] }

InitSearch ==
    /\ interrupt_at = 0
    /\ IdleSim
    /\ IdleTry
    /\ IdleRun
    /\ spotify_enabled \in BOOLEAN
    /\ disk = {}
    /\ files = <<>>
    /\ idx = 1
    /\ file_hash = <<>>
    /\ metadata = NoMeta
    /\ result = NoResult
    /\ pf = NoPf
    /\ s_args \in [title : SearchTitles, artist : SearchArtists]
    /\ clean = NoClean
    /\ calls = <<>>
    /\ search_out = NoneInt
    /\ pc = "search"

NextSearch ==
    \/ search_spotify
    \/ Strategy1(SearchResponses)
    \/ Strategy2(SearchResponses)
    \/ Strategy3(SearchResponses)
    \/ Strategy4(SearchResponses)
    \/ Strategy5(SearchResponses)

SpecSearch == InitSearch /\ [][NextSearch]_vars

(* ----------------------------------------------------------------------- *)
(* Runs with the backup enabled on a root whose backup directory has files  *)
(* ----------------------------------------------------------------------- *)
\* files BACKUP_DIR may hold from an earlier use of the root: other music
\* under the name of a scanned file, with another size
Backed1 == [dir |-> backup_dir, stem |-> s_abc, data |-> 9, size |-> 3, mtime |-> 1,
            tags |-> NoTags]

Backed2 == [dir |-> backup_dir, stem |-> Suffixed(s_abc, 1), data |-> 10, size |-> 3,
            mtime |-> 1, tags |-> NoTags]

BackedSets == { {}, {Backed1}, {Backed1, Backed2} }

\* the state after UltraMusicFilter.__init__ with backup=True and the search off
InitBackup ==
    /\ interrupt_at = 0
    /\ IdleSim
    /\ IdleTry
    /\ IdleLocals
    /\ pc = "scan"
    /\ run_no = 1
    /\ target_years = {2024}
    /\ backup_enabled = TRUE
    /\ spotify_enabled = FALSE
    /\ \E S \in SUBSET FilePool, B \in BackedSets :
          /\ S # {}
          /\ Cardinality(S) <= MaxFiles
          /\ disk = S \cup B
    /\ store = EmptyCache
    /\ cache = store
    /\ stats = ZeroStats
    /\ id_stats = ZeroIdStats
    /\ files = <<>>
    /\ idx = 1
    /\ io_failed = FALSE

\* a later start with the same options
new_run_same ==
    /\ new_run
    /\ spotify_enabled' = spotify_enabled

NextBackup ==
    \/ scan_files
    \/ identify_cache
    \/ identify_metadata
    \/ identify_filename
    \/ process_file
    \/ create_backup
    \/ move_file
    \/ loop_end
    \/ run_end
    \/ new_run_same

SpecBackup == InitBackup /\ [][NextBackup]_vars

(* ----------------------------------------------------------------------- *)
(* A run over more files than the period of the cache flush                 *)
(* ----------------------------------------------------------------------- *)
\* file k of the long run: tagged with a title, an artist and, but for the
\* last file, a date
FlushFile(k) ==
    [dir |-> <<"in1">>, stem |-> <<"f">> \o IntStr(k), data |-> k, size |-> 1, mtime |-> 1,
     tags |-> [title |-> s_abc, artist |-> s_ab,
               date |-> IF k < MaxFlushFiles THEN d_2024 ELSE NoneStr]]

\* run after scan_files returned the files of the long run in their order
InitFlush ==
    /\ interrupt_at = 0
    /\ IdleSim
    /\ IdleTry
    /\ IdleLocals
    /\ pc = "next"
    /\ run_no = 1
    /\ target_years = {2024}
    /\ backup_enabled = FALSE
    /\ spotify_enabled = FALSE
    /\ disk = {FlushFile(k) : k \in 1..MaxFlushFiles}
    /\ files = [k \in 1..MaxFlushFiles |-> PathOf(FlushFile(k))]
    /\ idx = 1
    /\ store = EmptyCache
    /\ cache = store
    /\ stats = [ZeroStats EXCEPT !.total = MaxFlushFiles]
    /\ id_stats = ZeroIdStats
    /\ io_failed = FALSE

NextFlush ==
    \/ identify_cache
    \/ identify_metadata
    \/ identify_filename
    \/ process_file
    \/ create_backup
    \/ move_file
    \/ loop_end
    \/ run_end

SpecFlush == InitFlush /\ [][NextFlush]_vars

(* ----------------------------------------------------------------------- *)
(* Runs in which the user may interrupt                                     *)
(* ----------------------------------------------------------------------- *)
\* the state after UltraMusicFilter.__init__ at the first start, on a root
\* without files from an earlier use
InitInterrupt ==
    /\ interrupt_at = 0
    /\ IdleSim
    /\ IdleTry
    /\ IdleLocals
    /\ pc = "scan"
    /\ run_no = 1
    /\ target_years = {2024}
    /\ backup_enabled \in BOOLEAN
    /\ spotify_enabled \in BOOLEAN
    /\ \E S \in SUBSET FilePool :
          /\ S # {}
          /\ Cardinality(S) <= MaxFiles
          /\ disk = S
    /\ store = EmptyCache
    /\ cache = store
    /\ stats = ZeroStats
    /\ id_stats = ZeroIdStats
    /\ files = <<>>
    /\ idx = 1
    /\ io_failed = FALSE

\* what the search capability answers in these runs
InterruptResponses ==
    { [kind |-> "raise"],
      [kind |-> "ok", items |-> << Track(s_abc, s_ab, d_2019) >>] }

NextInterrupt ==
    \/ scan_files
    \/ identify_cache
    \/ identify_metadata
    \/ search_spotify
    \/ Strategy1(InterruptResponses)
    \/ Strategy2(InterruptResponses)
    \/ Strategy3(InterruptResponses)
    \/ Strategy4(InterruptResponses)
    \/ Strategy5(InterruptResponses)
    \/ identify_spotify
    \/ identify_filename
    \/ process_file
    \/ create_backup
    \/ move_file
    \/ loop_end
    \/ run_end
    \/ new_run
    \/ interrupt_break
    \/ interrupt_hash
    \/ interrupt_tags
    \/ interrupt_save
    \/ interrupt_update

SpecInterrupt == InitInterrupt /\ [][NextInterrupt]_vars

(* ----------------------------------------------------------------------- *)
(* Runs on a root with folders inside folders and folders that carry the    *)
(* name of an excluded directory                                           *)
(* ----------------------------------------------------------------------- *)
ScanTags == [title |-> s_abc, artist |-> s_ab, date |-> d_2024]

ScanFile(dir, stem, data) ==
    [dir |-> dir, stem |-> stem, data |-> data, size |-> 1, mtime |-> 1, tags |-> ScanTags]

\* files in the root itself (this one without a date), in a folder, in a
\* folder of a folder, and in a folder named "2019", which is excluded when
\* 2019 is a target year
OpenPool ==
    { [ScanFile(<<>>, s_abcd, 1) EXCEPT !.tags.date = NoneStr],
      ScanFile(<<"in1">>, s_abc, 2),
      ScanFile(<<"in1", "sub">>, s_abc, 3),
      ScanFile(<<"2019">>, s_ab, 4) }

\* files with an excluded name as the first, the last or a middle part of
\* their directory
ExcludedPool ==
    { ScanFile(YearDir(2024), s_abc, 5),
      ScanFile(backup_dir, s_abc, 6),
      ScanFile(<<"in1", "2024">>, s_abcd, 7),
      ScanFile(<<"in2", "outros_anos", "sub">>, s_abc, 8),
      ScanFile(<<"antigas">>, s_ab, 9) }

\* the state after UltraMusicFilter.__init__ with backup=True and the search off
InitScan ==
    /\ interrupt_at = 0
    /\ IdleSim
    /\ IdleTry
    /\ IdleLocals
    /\ pc = "scan"
    /\ run_no = 1
    /\ target_years \in TargetYearSets
    /\ backup_enabled = TRUE
    /\ spotify_enabled = FALSE
    /\ \E S \in SUBSET OpenPool, X \in SUBSET ExcludedPool :
          /\ Cardinality(S) \in 1..MaxFiles
          /\ Cardinality(X) \in 1..MaxFiles
          /\ disk = S \cup X
    /\ store = EmptyCache
    /\ cache = store
    /\ stats = ZeroStats
    /\ id_stats = ZeroIdStats
    /\ files = <<>>
    /\ idx = 1
    /\ io_failed = FALSE

SpecScan == InitScan /\ [][NextBackup]_vars

(* ----------------------------------------------------------------------- *)
(* Properties                                                              *)
(* ----------------------------------------------------------------------- *)
\* the tokens of a str: its maximal runs of non-whitespace characters
TokensOf(s) ==
    { SubSeq(s, p[1], p[2]) :
        p \in { q \in (1..Len(s)) \X (1..Len(s)) :
                  /\ q[1] <= q[2]
                  /\ \A i \in q[1]..q[2] : s[i] # Space
                  /\ (q[1] = 1 \/ s[q[1] - 1] = Space)
                  /\ (q[2] = Len(s) \/ s[q[2] + 1] = Space) } }

One == Rat(1, 1)

Zero == Rat(0, 1)

\* C8 as stated: similarity is symmetric, lies in [0,1], is the Jaccard index
\* of the two token sets, and similarity(a,a) = 1 for every nonempty a, a
\* whitespace-only a included.
C8_AsStated ==
    pc = "sim_done" =>
        LET A == TokensOf(sim_s1)
            B == TokensOf(sim_s2)
        IN  /\ RatEQ(sim_out, similarity(sim_s2, sim_s1))
            /\ sim_out.d > 0
            /\ 0 <= sim_out.n
            /\ sim_out.n <= sim_out.d
            /\ sim_out.n * Cardinality(A \cup B) = Cardinality(A \cap B) * sim_out.d
            /\ (sim_s1 = sim_s2 /\ sim_s1 # <<>> => RatEQ(sim_out, One))

\* C8 amended: similarity is symmetric, lies in [0,1], is the Jaccard index of
\* the two token sets, is 0 when either string has no token, and
\* similarity(a,a) = 1 for every a that has at least one token.
C8_Similarity ==
    pc = "sim_done" =>
        LET A == TokensOf(sim_s1)
            B == TokensOf(sim_s2)
        IN  /\ RatEQ(sim_out, similarity(sim_s2, sim_s1))
            /\ sim_out.d > 0
            /\ 0 <= sim_out.n
            /\ sim_out.n <= sim_out.d
            /\ sim_out.n * Cardinality(A \cup B) = Cardinality(A \cap B) * sim_out.d
            /\ (A = {} \/ B = {} => RatEQ(sim_out, Zero))
            /\ (sim_s1 = sim_s2 /\ A # {} => RatEQ(sim_out, One))

\* similarity(a,a) was computed for an a of two tokens and is 1
C8_Witness ==
    /\ pc = "sim_done"
    /\ sim_s1 = sim_s2
    /\ Cardinality(TokensOf(sim_s1)) = 2
    /\ RatEQ(sim_out, One)

\* the positions of the 4-digit tokens 20[0-2][0-9] of a stem that have a
\* non-digit or the start of the stem before them and a non-digit or the end of
\* the stem after them
BoundedYearTokens(s) ==
    { i \in 1..Len(s) :
        /\ i + 3 <= Len(s)
        /\ s[i] = "2"
        /\ s[i + 1] = "0"
        /\ s[i + 2] \in {"0", "1", "2"}
        /\ s[i + 3] \in Digits
        /\ (i = 1 \/ s[i - 1] \notin Digits)
        /\ (i + 3 = Len(s) \/ s[i + 4] \notin Digits) }

LeftmostYear(s) ==
    LET i == CHOOSE i \in BoundedYearTokens(s) : \A j \in BoundedYearTokens(s) : i <= j
    IN  DigitsVal(SubSeq(s, i, i + 3))

\* C10: when cache, tags and search gave no year and the stem has a bounded
\* token 20[0-2][0-9] (a stem of exactly 4 digits included), identify_year
\* returns (y, "filename", 0.60) with y the leftmost such token.
C10_FilenameYear ==
    (/\ pc = "pf"
     /\ metadata.year = NoneInt
     /\ search_out = NoneInt
     /\ BoundedYearTokens(files[idx][2]) # {})
        => result = [year |-> LeftmostYear(files[idx][2]), source |-> "filename",
                     confidence |-> 60]

\* the Jaccard index of the lower-cased token sets of two strings (0 when
\* neither has a token)
Jaccard(a, b) ==
    LET A == TokensOf(Lower(a))
        B == TokensOf(Lower(b))
    IN  IF A \cup B = {} THEN Zero
        ELSE Rat(Cardinality(A \cap B), Cardinality(A \cup B))

Supplied(artist) == artist # NoneStr /\ artist # <<>>

\* 0.7 * title-similarity + 0.3 * artist-similarity when an artist is
\* supplied, else the title-similarity
ClaimedScore(artist, title, track) ==
    LET t == Jaccard(title, track.name)
        a == Jaccard(artist, IF track.artist = NoneStr THEN <<>> ELSE track.artist)
    IN  IF Supplied(artist)
        THEN Rat(7 * t.n * a.d + 3 * a.n * t.d, 10 * t.d * a.d)
        ELSE t

\* the candidates of a response that no other candidate outscores
TopCandidates(artist, title, items) ==
    { k \in 1..Len(items) :
        \A j \in 1..Len(items) :
            RatLE(ClaimedScore(artist, title, items[j]), ClaimedScore(artist, title, items[k])) }

ReleaseYear(track) ==
    IF track.date = NoneStr THEN NoneInt ELSE ParseInt(Take(track.date, 4))

\* C9: _try_search returns a year only if the highest score, computed as
\* 0.7*title + 0.3*artist (title alone without an artist), is strictly greater
\* than 0.35, and the year is the release year of a highest-scoring candidate.
C9_Acceptance ==
    (pc = "try_done" /\ try_out.year # NoneInt) =>
        /\ try_in.resp.kind = "ok"
        /\ \E k \in TopCandidates(try_in.artist, try_in.title, try_in.resp.items) :
              /\ RatGT(ClaimedScore(try_in.artist, try_in.title, try_in.resp.items[k]),
                       Rat(35, 100))
              /\ try_out.year = ReleaseYear(try_in.resp.items[k])

\* a year was returned for a response of two candidates with different scores
\* and different release years, scored with an artist
C9_Witness ==
    /\ pc = "try_done"
    /\ try_out.year # NoneInt
    /\ Supplied(try_in.artist)
    /\ try_in.resp.kind = "ok"
    /\ Len(try_in.resp.items) = 2
    /\ ~RatEQ(ClaimedScore(try_in.artist, try_in.title, try_in.resp.items[1]),
              ClaimedScore(try_in.artist, try_in.title, try_in.resp.items[2]))
    /\ ReleaseYear(try_in.resp.items[1]) # ReleaseYear(try_in.resp.items[2])
    /\ try_out.year = ReleaseYear(try_in.resp.items[2])

\* a candidate with a release year scored exactly 0.35 and no year was returned
C9_ExactThreshold ==
    /\ pc = "try_done"
    /\ try_out.called
    /\ try_out.year = NoneInt
    /\ try_in.resp.kind = "ok"
    /\ Len(try_in.resp.items) = 1
    /\ RatEQ(ClaimedScore(try_in.artist, try_in.title, try_in.resp.items[1]), Rat(35, 100))
    /\ ReleaseYear(try_in.resp.items[1]) = 2019

\* the calls of one search are in strategy order, each strategy at most once
CallsInOrder ==
    \A i, j \in 1..Len(calls) : i < j => calls[i].strategy < calls[j].strategy

\* C7: within one search the calls are issued in strategy order, each strategy
\* at most once, and no call follows a call whose attempt returned a year.
C7_AsStated ==
    /\ CallsInOrder
    /\ \A i, j \in 1..Len(calls) : i < j => calls[i].year = NoneInt

\* what the code keeps of the ordering: the calls are in strategy order, each
\* strategy at most once, and no call follows an attempt that returned a
\* nonzero year; an attempt that returns the year 0 (release date "0000") is
\* taken for a failure by "if year:" and the later strategies are still tried
C7_StrategyOrder ==
    /\ CallsInOrder
    /\ \A i, j \in 1..Len(calls) : i < j => calls[i].year \in {NoneInt, 0}
    /\ (pc = "search_ret" /\ search_out # NoneInt =>
            /\ calls # <<>>
            /\ calls[Len(calls)].year = search_out
            /\ search_out # 0)

\* strategy 1 returned a year for a title and artist that strategies 2 to 5
\* apply to, and it is the only call
C7_Witness ==
    /\ pc = "search_ret"
    /\ Len(calls) = 1
    /\ calls[1].strategy = 1
    /\ search_out = calls[1].year
    /\ search_out # NoneInt
    /\ Len(Split(clean.title)) > 3
    /\ Space \in ToSet(clean.artist)

\* all five strategies called the search capability
C7_AllFive == Len(calls) = 5

\* the file of the pool that run scanned at a path
Scanned(path) == CHOOSE p \in FilePool : PathOf(p) = path

\* the smallest k >= 1 for which stem_k is free in a directory
SmallestFree(d, dir, stem) ==
    CHOOSE k \in 1..(Cardinality(d) + 1) :
        /\ ~Exists(d, dir, Suffixed(stem, k))
        /\ \A j \in 1..(k - 1) : Exists(d, dir, Suffixed(stem, j))

\* C1: no step removes or changes a file of a destination directory, and a
\* place stores the moved file, with its content, under its own name if that
\* name was free in the destination, otherwise under stem_k for the smallest
\* k >= 1 whose name was free.
C1_CollisionSafety ==
    [][ /\ \A g \in disk : g.dir \in CategoryDirs => g \in disk'
        /\ (pc = "move" /\ disk' # disk) =>
              /\ CurFile \notin disk'
              /\ Cardinality(disk' \ disk) = 1
              /\ \A g \in disk' \ disk :
                    /\ g.dir \in CategoryDirs
                    /\ g.data = CurFile.data
                    /\ g.stem = IF Exists(disk, g.dir, CurFile.stem)
                                THEN Suffixed(CurFile.stem,
                                              SmallestFree(disk, g.dir, CurFile.stem))
                                ELSE CurFile.stem ]_vars

\* two different scanned files of the same name were placed in the same
\* directory, the second one under the _1 suffix
C1_Witness ==
    \E g, h \in disk :
        /\ g.dir \in CategoryDirs
        /\ h.dir = g.dir
        /\ h.stem = Suffixed(g.stem, 1)
        /\ \E p, q \in FilePool :
              p # q /\ p.stem = q.stem /\ g.data = p.data /\ h.data = q.data

\* a scanned file was placed under the _2 suffix next to older files
C1_WitnessSecondSuffix ==
    \E g \in disk, p \in FilePool :
        g.dir \in CategoryDirs /\ g.data = p.data /\ g.stem = Suffixed(p.stem, 2)

\* the positions of identify_year and of the search it calls
ResolvingAt == {"next", "id_meta", "search", "s1", "s2", "s3", "s4", "s5",
                "search_ret", "id_filename"}

\* C2: a resolution that returns a null year creates and modifies no cache
\* entry; a resolution that returns a non-null year leaves an entry under the
\* file's fingerprint whose year, source and confidence equal the result.
C2_CacheWrite ==
    [][ (pc \in ResolvingAt) =>
          (IF pc' = "pf"
          THEN IF result'.year = NoneInt
               THEN cache' = cache
               ELSE /\ file_hash' \in DOMAIN cache'
                    /\ cache'[file_hash'].year = result'.year
                    /\ cache'[file_hash'].source = result'.source
                    /\ cache'[file_hash'].confidence = result'.confidence
                    /\ \A h \in DOMAIN cache : h # file_hash' =>
                          h \in DOMAIN cache' /\ cache'[h] = cache[h]
          ELSE cache' = cache) ]_vars

\* a resolution by search has returned a year and the cache holds it under a
\* fingerprint that had no entry
C2_Witness ==
    /\ pc = "pf"
    /\ result = [year |-> 2019, source |-> "spotify", confidence |-> 85]
    /\ calls # <<>>
    /\ file_hash \in DOMAIN cache
    /\ file_hash \notin DOMAIN store
    /\ cache[file_hash].year = 2019
    /\ cache[file_hash].confidence = 85

\* a resolution has returned the null year and the cache is as it was loaded
C2_WitnessNull ==
    /\ pc = "pf"
    /\ run_no = 1
    /\ idx = 1
    /\ result = NoResult
    /\ calls # <<>>
    /\ cache = store

\* the destination rule, as the specification words it
ClaimedDir(year, confidence) ==
    IF year \in target_years THEN YearDir(year)
    ELSE IF year # NoneInt /\ confidence >= 50 THEN OtherDir
    ELSE UnknownDir

\* the category directories that hold the content of a scanned file
CategoriesOf(path) ==
    {g.dir : g \in {h \in disk : h.dir \in CategoryDirs /\ h.data = Scanned(path).data}}

\* C3: in a run without interruption and without a filesystem failure, every
\* scanned file, whatever tag fields it has, is in exactly one category
\* directory once its iteration is over, and that directory is the one the
\* destination rule gives for its resolved year and confidence.
C3_EveryFilePlaced ==
    (~io_failed /\ pc \in (ResolvingAt \cup {"pf", "backup", "move", "loop_end"})) =>
        \A k \in 1..Len(files) :
            /\ (k < idx \/ (k = idx /\ pc = "loop_end")) =>
                  /\ Cardinality(CategoriesOf(files[k])) = 1
                  /\ ~Exists(disk, files[k][1], files[k][2])
            /\ (k = idx /\ pc = "loop_end") =>
                  CategoriesOf(files[k]) = {ClaimedDir(result.year, result.confidence)}

\* the year the tags of a file give: int(str(date)[:4])
TagYearOf(f) == TagYear(f.tags.date)

\* the four parts of the claim on a step of identify_year that read the tags
TagResult(y) ==
    /\ pc' = "pf"
    /\ result' = [year |-> y, source |-> "metadata", confidence |-> 95]
    /\ calls' = <<>>
    /\ file_hash \in DOMAIN cache'
    /\ cache'[file_hash].year = y
    /\ cache'[file_hash].source = "metadata"
    /\ cache'[file_hash].confidence = 95

\* C4: when the fingerprint is not cached and the tags supply a year y, the
\* result is (y, "metadata", 0.95), it is cached and no search call is made.
C4_AsStated ==
    [][ (pc = "id_meta" /\ file_hash \notin DOMAIN cache /\ TagYearOf(CurFile) # NoneInt)
            => TagResult(TagYearOf(CurFile)) ]_vars

\* what the code keeps of the tag priority: a nonzero tag year y gives
\* (y, "metadata", 0.95), cached, without a search call; a tag date that starts
\* with "0000" gives the year 0, which "if metadata['year']:" takes for no
\* year, and the resolution goes on to the next source
C4_TagPriority ==
    [][ /\ (pc = "id_meta" /\ file_hash \notin DOMAIN cache
                /\ TagYearOf(CurFile) \notin {NoneInt, 0})
            => TagResult(TagYearOf(CurFile))
        /\ (pc = "id_meta" /\ TagYearOf(CurFile) = 0)
            => (pc' \in {"search", "id_filename"} /\ cache' = cache) ]_vars

\* the tags gave 2024 while the search was enabled: the result is from the
\* tags, it is cached, and there was no search call
C4_Witness ==
    /\ pc = "pf"
    /\ spotify_enabled
    /\ metadata.year = 2024
    /\ Truthy(metadata.title)
    /\ result = [year |-> 2024, source |-> "metadata", confidence |-> 95]
    /\ calls = <<>>
    /\ file_hash \notin DOMAIN store
    /\ cache[file_hash].source = "metadata"

\* C5: resolving a file whose fingerprint is in the cache returns the year,
\* source and confidence of the entry, reads no tags and makes no search
\* call, and leaves the cache as it is.
C5_CacheIdempotence ==
    [][ (pc = "next" /\ idx <= Len(files) /\ get_file_hash(CurFile) \in DOMAIN cache) =>
          LET entry == cache[get_file_hash(CurFile)]
          IN  /\ pc' = "pf"
              /\ result'.year = entry.year
              /\ result'.source = entry.source
              /\ result'.confidence = entry.confidence
              /\ metadata' = NoMeta
              /\ calls' = <<>>
              /\ cache' = cache ]_vars

\* in the second run, with the search enabled, a file that the first run
\* resolved by its filename is answered from the entry the first run wrote
C5_Witness ==
    /\ pc = "pf"
    /\ run_no = 2
    /\ spotify_enabled
    /\ file_hash \in DOMAIN cache
    /\ cache[file_hash].timestamp = 1
    /\ cache[file_hash].source = "filename"
    /\ result = [year |-> 2024, source |-> "filename", confidence |-> 60]
    /\ metadata = NoMeta
    /\ calls = <<>>

C6_WitnessOther ==
    /\ pc = "loop_end"
    /\ pf.success
    /\ pf.year = 2019
    /\ pf.year \notin target_years
    /\ pf.confidence >= 50
    /\ \E g \in disk : g.dir = OtherDir /\ g.data = Scanned(files[idx]).data

\* C11: when the fingerprint is not cached, the tags have no year, the search
\* is disabled or returned no year and the stem has no bounded token
\* 20[0-2][0-9], the result is (null, "unknown", 0.0) and the fingerprint is
\* still not cached; no step of a resolution calls the search while it is
\* disabled.
C11_UnknownResult ==
    [][ /\ (pc = "id_filename" /\ TagYearOf(CurFile) = NoneInt
                /\ BoundedYearTokens(CurFile.stem) = {})
            => /\ pc' = "pf"
               /\ result' = [year |-> NoneInt, source |-> "unknown", confidence |-> 0]
               /\ cache' = cache
               /\ file_hash \notin DOMAIN cache'
               /\ (~spotify_enabled => calls' = <<>>)
        /\ (pc \in ResolvingAt /\ ~spotify_enabled) => calls' = <<>> ]_vars

\* in the second run, with the search disabled, a file without tags that the
\* first run could not identify and left in place is resolved again, with the
\* unknown result and without a cache entry
C11_Witness ==
    /\ pc = "pf"
    /\ run_no = 2
    /\ ~spotify_enabled
    /\ CurFile.tags = NoTags
    /\ result = [year |-> NoneInt, source |-> "unknown", confidence |-> 0]
    /\ calls = <<>>
    /\ file_hash = get_file_hash(CurFile)
    /\ file_hash \notin DOMAIN cache

\* was an artist known for a file, from its tags or from the parsing of its name
ArtistKnown(f) == Truthy(extract_metadata(f.tags, f.stem).artist)

\* the result the claim gives for a year y of the search, under a source label
SearchResult(label, y) ==
    /\ pc' = "pf"
    /\ result' = [year |-> y, source |-> label,
                  confidence |-> IF ArtistKnown(CurFile) THEN 85 ELSE 70]
    /\ id_stats'.filename_hits = id_stats.filename_hits

\* C12: when the tags lack a year, a title is available and the search returns
\* a year y, the result is (y, "spotify-search", c) with c = 0.85 when an
\* artist was known and c = 0.70 otherwise, and the filename year step is not
\* consulted.
C12_AsStated ==
    [][ (pc = "search_ret" /\ search_out # NoneInt) =>
            SearchResult("spotify-search", search_out) ]_vars

\* C12 with the source label of the code: the result is (y, "spotify", c) with
\* c = 0.85 when an artist was known and c = 0.70 otherwise, and the filename
\* year step is not consulted.
C12_SearchStep ==
    [][ (pc = "search_ret" /\ search_out # NoneInt) =>
            SearchResult("spotify", search_out) ]_vars

\* a file without tags and without a separator in its name, so without a known
\* artist, was resolved by the search with the confidence 0.70
C12_Witness ==
    /\ pc = "pf"
    /\ CurFile.tags = NoTags
    /\ ~ArtistKnown(CurFile)
    /\ calls # <<>>
    /\ search_out = 2024
    /\ result = [year |-> 2024, source |-> "spotify", confidence |-> 70]

\* a file with a known artist was resolved by the search with the confidence 0.85
C12_WitnessArtist ==
    /\ pc = "pf"
    /\ ArtistKnown(CurFile)
    /\ calls # <<>>
    /\ result = [year |-> search_out, source |-> "spotify", confidence |-> 85]

\* the position after each strategy block
AfterStrategy == [s1 |-> "s2", s2 |-> "s3", s3 |-> "s4", s4 |-> "s5", s5 |-> "search_ret"]

\* C13: an attempt whose search call raised, or whose best candidate has a
\* malformed release date, returns no year and writes nothing, and the search
\* goes on with the next strategy; when the search returned no year the
\* filename year step runs; every step of a resolution stays in the resolution
\* or returns a result to process_file, and counts no error.
C13_FailureIsolation ==
    [][ /\ (pc \in DOMAIN AfterStrategy /\ Len(calls') > Len(calls)
                /\ ( \/ calls'[Len(calls')].raised
                     \/ calls'[Len(calls')].year = NoneInt ))
            => /\ calls'[Len(calls')].year = NoneInt
               /\ search_out' = NoneInt
               /\ pc' = AfterStrategy[pc]
               /\ cache' = cache
               /\ disk' = disk
        /\ (pc = "search_ret" /\ search_out = NoneInt) => pc' = "id_filename"
        /\ (pc = "id_filename") =>
               /\ pc' = "pf"
               /\ result'.source \in {"filename", "unknown"}
               /\ (BoundedYearTokens(CurFile.stem) = {} => result'.source = "unknown")
        /\ (pc \in ResolvingAt /\ idx <= Len(files)) =>
               /\ pc' \in ResolvingAt \cup {"pf"}
               /\ stats'.errors = stats.errors ]_vars

\* every one of the five strategies was tried although each call raised, and
\* the year then came from the file name
C13_Witness ==
    /\ pc = "pf"
    /\ Len(calls) = 5
    /\ \A i \in 1..5 : calls[i].raised /\ calls[i].strategy = i
    /\ result = [year |-> 2024, source |-> "filename", confidence |-> 60]

\* an attempt whose best candidate had a malformed release date returned no
\* year and a later strategy was tried
C13_WitnessMalformed ==
    /\ Len(calls) >= 2
    /\ ~calls[1].raised
    /\ calls[1].year = NoneInt
    /\ calls[2].strategy > calls[1].strategy

\* the backups of a set of files
Backups(d) == {b \in d : b.dir = backup_dir}

\* does the backup directory hold a copy that an earlier backup made of f
BackedUp(d, f) ==
    \E b \in Backups(d) : b.data = f.data /\ b.size = f.size /\ b.mtime = f.mtime

\* C14: backing up a file of which the backup directory holds a copy from an
\* earlier backup changes no file and does not count a backup, whatever else
\* the backup directory holds; a copy that is made while a same-named backup
\* of another size exists goes to stem_k for the smallest free k >= 1, and no
\* backup is removed or changed.
C14_BackupIdempotence ==
    [][ (pc = "backup" /\ backup_enabled) =>
          /\ BackedUp(disk, CurFile) =>
                 (disk' = disk /\ stats'.backed_up = stats.backed_up)
          /\ Backups(disk) \subseteq Backups(disk')
          /\ (disk' # disk /\ Exists(disk, backup_dir, CurFile.stem)) =>
                 \A b \in disk' \ disk :
                     /\ b.dir = backup_dir
                     /\ b.data = CurFile.data
                     /\ b.stem = Suffixed(CurFile.stem,
                                          SmallestFree(disk, backup_dir, CurFile.stem)) ]_vars

\* C15: a backup that fails counts no backup and writes nothing to the backup
\* directory, and move_file goes on: it selects the destination and moves the
\* file there.
C15_BackupFailure ==
    [][ /\ (pc = "backup" /\ backup_enabled /\ ~io_failed /\ io_failed') =>
              /\ pc' = "move"
              /\ stats'.backed_up = stats.backed_up
              /\ disk' = disk
        /\ (pc = "move" /\ backup_enabled /\ io_failed) =>
              /\ pc' = "loop_end"
              /\ CurFile \notin disk'
              /\ stats'.moved = stats.moved + 1
              /\ stats'.backed_up = stats.backed_up
              /\ \E g \in disk' \ disk :
                    /\ g.data = CurFile.data
                    /\ g.dir = ClaimedDir(pf.year, pf.confidence) ]_vars

\* the backup of the first file of the first run failed and the file was
\* moved to its directory without a backup
C15_Witness ==
    /\ pc = "loop_end"
    /\ run_no = 1
    /\ idx = 1
    /\ backup_enabled
    /\ io_failed
    /\ pf.success
    /\ stats.backed_up = 0
    /\ stats.moved = 1
    /\ ~Exists(disk, files[1][1], files[1][2])
    /\ \E g \in disk : g.dir \in CategoryDirs /\ g.data = Scanned(files[1]).data
    /\ ~\E b \in Backups(disk) : b.data = Scanned(files[1]).data

\* C16: when the move of a file cannot complete, the error counter increases
\* by one and the moved counter does not, the source file is left in place,
\* and the run goes on to the end of the iteration and the next file.
C16_MoveFailure ==
    [][ (pc = "move" /\ ~io_failed /\ io_failed') =>
          /\ stats'.errors = stats.errors + 1
          /\ stats'.moved = stats.moved
          /\ disk' = disk
          /\ pc' = "loop_end" ]_vars

\* the files run scanned, where they were before the run
UntouchedOrPlaced(path) ==
    \/ /\ Exists(disk, path[1], path[2])
       /\ FileAt(disk, path).data = Scanned(path).data
       /\ CategoriesOf(path) = {}
    \/ /\ ~Exists(disk, path[1], path[2])
       /\ Cardinality(CategoriesOf(path)) = 1

\* C17: once a user interrupt has arrived in a run, no file whose processing
\* had not started is resolved or moved; the file that was in progress is
\* fully placed or left untouched; and the cache is flushed to the store
\* before run returns.
C17_Interruption ==
    [][ /\ (interrupt_at # 0 /\ pc = "next") => pc' \notin {"id_meta", "pf"}
        /\ (interrupt_at # 0 /\ idx > interrupt_at) => disk' = disk
        /\ (interrupt_at' # 0 /\ pc' = "returned" /\ interrupt_at' <= Len(files)) =>
              UntouchedOrPlaced(files[interrupt_at])'
        /\ (interrupt_at' # 0 /\ pc' = "returned" /\ ~io_failed') => store' = cache' ]_vars

\* the fingerprints whose cache entry is not in the store
Unsaved == {h \in DOMAIN cache : h \notin DOMAIN store \/ store[h] # cache[h]}

\* C18: while no write has failed, the iteration that brings the number of
\* processed files to a multiple of 50 writes the cache to the store, between
\* two files fewer than 50 cache entries are missing from the store, and when
\* run has returned the store equals the cache.
C18_CacheFlush ==
    [][ /\ (pc = "loop_end" /\ stats.processed % 50 = 0 /\ ~io_failed') => store' = cache
        /\ (pc' = "next" /\ ~io_failed') => Cardinality(Unsaved') < 50
        /\ (pc' = "returned" /\ ~io_failed') => store' = cache' ]_vars

\* 50 files were processed, each with a new cache entry, and the store holds
\* the 50 entries before the 51st file is started
C18_Witness ==
    /\ pc = "next"
    /\ idx = 51
    /\ stats.processed = 50
    /\ ~io_failed
    /\ Cardinality(DOMAIN cache) = 50
    /\ store = cache

\* the run over 51 files has returned and the store holds what the cache holds
C18_WitnessEnd ==
    /\ pc = "returned"
    /\ stats.processed > 50
    /\ ~io_failed
    /\ cache # EmptyCache
    /\ store = cache

\* the sum of the values of a function with a finite domain
RECURSIVE SumOf(_, _)
SumOf(f, S) ==
    IF S = {} THEN 0
    ELSE LET x == CHOOSE x \in S : TRUE IN f[x] + SumOf(f, S \ {x})

\* the files the statistics count under a category or as an error
Counted(st) == SumOf(st.by_year, DOMAIN st.by_year) + st.other_years + st.unknown + st.errors

\* the directory of the category that process_file counts for a year
CountedDir(year) ==
    IF year \in target_years THEN YearDir(year)
    ELSE IF year # NoneInt /\ year # 0 THEN OtherDir
    ELSE UnknownDir

\* C19: every file handled by process_file increments exactly one of
\* by_year[y], other_years, unknown and errors, so that the number of handled
\* files is the sum of these counters at every point; within a run no counter
\* decreases; and a file is moved to the directory of the category that was
\* counted for it.
C19_Statistics ==
    [][ /\ stats'.processed = Counted(stats')
        /\ (pc = "pf") => Counted(stats') = Counted(stats) + 1
        /\ (pc # "returned") =>
              /\ \A y \in target_years : stats'.by_year[y] >= stats.by_year[y]
              /\ stats'.other_years >= stats.other_years
              /\ stats'.unknown >= stats.unknown
              /\ stats'.errors >= stats.errors
              /\ stats'.processed >= stats.processed
              /\ stats'.moved >= stats.moved
        /\ (pc = "move" /\ disk' # disk) =>
              \A g \in disk' \ disk : g.dir = CountedDir(pf.year) ]_vars

\* does every entry of the mapping c stand in the mapping d with the same
\* year, source and confidence
KeptIn(c, d) ==
    \A h \in DOMAIN c :
        /\ h \in DOMAIN d
        /\ d[h].year = c[h].year
        /\ d[h].source = c[h].source
        /\ d[h].confidence = c[h].confidence

\* C20: no step of a run changes or removes the year, source or confidence of
\* a cache entry, whether the search is enabled or not; a start of the program
\* loads the store, which holds every entry of the last run unless a write
\* failed; and no step changes or removes an entry of the store: the cache
\* and the store only grow.
C20_FirstAnswerWins ==
    [][ /\ (pc # "returned") => KeptIn(cache, cache')
        /\ (pc = "returned") => cache' = store
        /\ (pc = "returned" /\ ~io_failed) => KeptIn(cache, cache')
        /\ KeptIn(store, store') ]_vars

\* in the second run, with the search enabled, the cache still holds the
\* entry the first run wrote and has grown by an entry of a file that the
\* first run could not identify
C20_Witness ==
    /\ run_no = 2
    /\ spotify_enabled
    /\ \E h1, h2 \in DOMAIN cache :
          /\ h1 \in DOMAIN store
          /\ cache[h1] = store[h1]
          /\ cache[h1].timestamp = 1
          /\ h2 \notin DOMAIN store
          /\ cache[h2].timestamp = 2
          /\ cache[h2].source = "spotify"

\* C21: with the backup enabled and no filesystem failure in the run, when
\* move_file moves a file the backup directory holds a file with the content
\* of that file, also when another file of the same name and byte size was
\* backed up before.
C21_BackupBeforeMove ==
    [][ (pc = "move" /\ backup_enabled /\ ~io_failed /\ ~io_failed') =>
          /\ CurFile \notin disk'
          /\ \E b \in Backups(disk) : b.data = CurFile.data ]_vars

\* has the directory a part named after a target year, outros_anos,
\* nao_identificadas or the backup directory
NamedExcluded(dir) == \E i \in 1..Len(dir) : <<dir[i]>> \in CategoryDirs \cup {backup_dir}

\* the paths run scans in this run
ScanList == {files[k] : k \in 1..Len(files)}

\* C22: the list scan_files returns names each file once and no file with a
\* path part named after a target year, outros_anos, nao_identificadas or the
\* backup directory.  So a file under such a part (a backup copy, a file an
\* earlier run placed) is never moved or changed, in this run or a later one
\* with the same target years, and a file that is moved leaves the scanned
\* list for good: at most one move per iteration, to a path outside the list.
C22_ScanExclusion ==
    [][ /\ (\A k \in 1..Len(files) : ~NamedExcluded(files[k][1]))'
        /\ Cardinality(ScanList') = Len(files')
        /\ \A g \in disk : NamedExcluded(g.dir) => g \in disk'
        /\ target_years' = target_years
        /\ (pc = "move" /\ disk' # disk) =>
              /\ CurFile \notin disk'
              /\ ~Exists(disk', CurPath[1], CurPath[2])
              /\ stats'.moved <= idx
              /\ \A g \in disk' \ disk :
                    /\ g.data = CurFile.data
                    /\ NamedExcluded(g.dir)
                    /\ PathOf(g) \notin ScanList ]_vars

\* the second run has scanned the one file the first run could not move,
\* and not the file the first run placed, its backup copy, or the file of
\* the folder in1/2024
C22_Witness ==
    /\ run_no = 2
    /\ pc = "next"
    /\ idx = 1
    /\ Len(files) = 1
    /\ \E g \in disk :
          /\ g.dir \in CategoryDirs
          /\ g.data \in {f.data : f \in OpenPool}
          /\ \E b \in Backups(disk) : b.data = g.data
    /\ \E x \in disk : x.dir = <<"in1", "2024">>
    /\ Cardinality(disk) > 1 + Len(files)

\* a file of a folder inside a folder was scanned and moved while a file
\* with an excluded middle part of its path stayed where it was
C22_WitnessNested ==
    /\ pc = "loop_end"
    /\ pf.success
    /\ files[idx] = <<(<<"in1", "sub">>), s_abc>>
    /\ ~Exists(disk, files[idx][1], files[idx][2])
    /\ \E x \in disk : x.dir = <<"in2", "outros_anos", "sub">>

====
